---- MODULE Spec2Model ----
(***************************************************************************)
(* BananINT backend: the economy, progression and leaderboard logic of     *)
(* the two applications of the repository, src/main.py (the "main" game)   *)
(* and src/enhanced_game.py (the "enhanced" game), with the persisted      *)
(* snapshot both re-read inside update_leaderboard.                        *)
(*                                                                         *)
(* Numbers.  Python floats are modelled by exact fixed-point values: a     *)
(* currency amount is a record [w, f] standing for w + f/FRAC, a per-second*)
(* yield and the global multiplier are integers counting hundredths, and   *)
(* time is an integer number of milliseconds.                              *)
(* The one place where the rounding of IEEE doubles is reproduced is the   *)
(* cost curve floor(baseCost * 1.15^n), see FloatShort.                    *)
(***************************************************************************)
EXTENDS Integers, Sequences, FiniteSets, TLC

VARIABLES app, now, ticks, waited, steps, clients, game_sessions,
          upgrades_data, achievements_data, leaderboard_data, active_events,
          disk, resp, prior

vars == <<app, now, ticks, waited, steps, clients, game_sessions,
          upgrades_data, achievements_data, leaderboard_data, active_events,
          disk, resp, prior>>

(***************************************************************************)
(* Bounds of the model.                                                    *)
(***************************************************************************)
MaxTicks == 1

MaxSteps == 2

\* the largest owned count at which the cost curve is examined
MaxOwned == 4

(***************************************************************************)
(* Program constants.                                                      *)
(***************************************************************************)
FRAC == 100 * 1000

MAX_CLICK_RATE == 20

MAX_OFFLINE_SECONDS == 28800

PRESTIGE_MIN == 1000000000

DNA_DIVISOR == 100000000

EVENT_CHECK_MS == 60000

LEADERBOARD_SIZE == 10

NAME_LIMIT == 20

GOLDEN_MIN_REWARD == 100

(***************************************************************************)
(* Fixed-point arithmetic standing for the float fields.                   *)
(***************************************************************************)
FxNorm(w, f) == [w |-> w + (f \div FRAC), f |-> f % FRAC]

FxInt(n) == [w |-> n, f |-> 0]

FxAdd(a, b) == FxNorm(a.w + b.w, a.f + b.f)

FxSub(a, b) == FxNorm(a.w - b.w, a.f - b.f)

FxLess(a, b) == a.w < b.w \/ (a.w = b.w /\ a.f < b.f)

FxLeq(a, b) == a = b \/ FxLess(a, b)

\* int(x): truncation toward zero
FxTrunc(a) == IF a.w < 0 /\ a.f > 0 THEN a.w + 1 ELSE a.w

\* rate100 hundredths of a banana per second, during ms milliseconds
FxRate(rate100, ms) ==
    LET centi == rate100 * (ms \div 1000)
        micro == rate100 * (ms % 1000)
    IN  FxNorm(centi \div 100, (centi % 100) * 1000 + micro)

\* math.ceil(seconds * 20) for an elapsed time given in milliseconds
CeilClicks(ms) == -((-ms) \div (1000 \div MAX_CLICK_RATE))

(***************************************************************************)
(* Upgrade catalogs.                                                       *)
(***************************************************************************)
Up(cost, mult, type, unlock) ==
    [baseCost |-> cost, multiplier |-> mult, type |-> type, unlock |-> unlock]

main_DEFAULT_UPGRADES ==
    [click_1 |-> Up(10, 1, "click", 0),
     click_2 |-> Up(100, 5, "click", 0),
     click_3 |-> Up(1000, 10, "click", 0),
     auto_1  |-> Up(50, 1, "auto", 0),
     auto_2  |-> Up(500, 5, "auto", 0),
     auto_3  |-> Up(5000, 20, "auto", 0),
     auto_4  |-> Up(50000, 60, "auto", 0),
     auto_5  |-> Up(500000, 120, "auto", 0)]

DEFAULT_UPGRADES ==
    [click_1 |-> Up(10, 1, "click", 0),
     click_2 |-> Up(100, 5, "click", 0),
     click_3 |-> Up(1000, 10, "click", 0),
     click_4 |-> Up(10000, 25, "click", 0),
     click_5 |-> Up(100000, 100, "click", 0),
     auto_1  |-> Up(50, 1, "auto", 0),
     auto_2  |-> Up(500, 5, "auto", 0),
     auto_3  |-> Up(5000, 20, "auto", 0),
     auto_4  |-> Up(50000, 60, "auto", 0),
     auto_5  |-> Up(500000, 120, "auto", 0),
     auto_6  |-> Up(5000000, 500, "auto", 0),
     auto_7  |-> Up(50000000, 2000, "auto", 0),
     auto_8  |-> Up(500000000, 10000, "auto", 0),
     synergy_1 |-> Up(1000000, 1, "synergy", 0),
     synergy_2 |-> Up(100000000, 1, "synergy", 0),
     prestige_1 |-> Up(10, 5, "prestige", 1),
     prestige_2 |-> Up(50, 2, "prestige", 1)]

UpgradeIds == DOMAIN DEFAULT_UPGRADES

main_UpgradeIds == DOMAIN main_DEFAULT_UPGRADES

create_default_upgrades == [u \in UpgradeIds |-> 0]

main_create_default_upgrades == [u \in main_UpgradeIds |-> 0]

Ach(metric, value, reward100) ==
    [metric |-> metric, value |-> value, reward |-> reward100]

\* the second "ach_prestige_2" of the list replaces the first in the dict
DEFAULT_ACHIEVEMENTS ==
    [ach_clicks_1   |-> Ach("clicks", 100, 1),
     ach_clicks_2   |-> Ach("clicks", 1000, 1),
     ach_bananas_3  |-> Ach("bananas", 10000, 1),
     ach_bananas_4  |-> Ach("bananas", 1000000, 1),
     ach_prestige_1 |-> Ach("prestige", 1, 5),
     ach_prestige_2 |-> Ach("prestige", 10, 5)]

AchIds == DOMAIN DEFAULT_ACHIEVEMENTS

Locked == [unlocked |-> FALSE, unlockedAt |-> -1]

create_default_achievements == [a \in AchIds |-> Locked]

AVAILABLE_SKINS ==
    [default |-> 0, pixel |-> 50000, shiny |-> 5000000, rolling |-> 500000000]

(***************************************************************************)
(* Cost curve.                                                             *)
(***************************************************************************)
RECURSIVE Pow(_, _)
Pow(b, n) == IF n = 0 THEN 1 ELSE b * Pow(b, n - 1)

\* exact value of base * (23/20)^n as [w, r] meaning w + r / 20^n
RECURSIVE Grow(_, _)
Grow(base, n) ==
    IF n = 0 THEN [w |-> base, r |-> 0]
    ELSE LET p == Grow(base, n - 1)
             t == 3 * (p.w % 20)
             a == p.w + 3 * (p.w \div 20) + (t \div 20)
             b == t % 20
             num == b * Pow(20, n - 1) + 23 * p.r
         IN  [w |-> a + (num \div Pow(20, n)), r |-> num % Pow(20, n)]

\* (baseCost, n) for which the double product baseCost * pow(1.15, n) falls
\* just below the exact integer value, so that math.floor returns one less
FloatShort ==
    { <<100, 1>>, <<10000, 2>>, <<100000, 1>>, <<100000, 2>>, <<50000, 1>>,
      <<50000, 2>>, <<500000, 2>>, <<5000000, 2>>, <<5000000, 3>>,
      <<50000000, 1>>, <<50000000, 2>>, <<50000000, 3>>, <<500000000, 2>>,
      <<500000000, 3>>, <<500000000, 4>>, <<1000000, 2>>, <<1000000, 3>>,
      <<100000000, 1>>, <<100000000, 2>>, <<100000000, 3>>, <<100000000, 4>> }

\* math.floor(baseCost * math.pow(1.15, n))
FloorCost(base, n) ==
    Grow(base, n).w - (IF <<base, n>> \in FloatShort THEN 1 ELSE 0)

calculate_upgrade_cost(id, owned) ==
    IF DEFAULT_UPGRADES[id].type = "prestige"
    THEN DEFAULT_UPGRADES[id].baseCost
    ELSE FloorCost(DEFAULT_UPGRADES[id].baseCost, owned)

main_calculate_upgrade_cost(id, owned) ==
    FloorCost(main_DEFAULT_UPGRADES[id].baseCost, owned)

(***************************************************************************)
(* Yields.  A per-second yield and the global multiplier count hundredths. *)
(***************************************************************************)
\* the catalog ids in the order of the source lists
UpgradeOrder ==
    <<"click_1", "click_2", "click_3", "click_4", "click_5", "auto_1",
      "auto_2", "auto_3", "auto_4", "auto_5", "auto_6", "auto_7", "auto_8",
      "synergy_1", "synergy_2", "prestige_1", "prestige_2">>

main_UpgradeOrder ==
    <<"click_1", "click_2", "click_3", "auto_1", "auto_2", "auto_3",
      "auto_4", "auto_5">>

AchOrder ==
    <<"ach_clicks_1", "ach_clicks_2", "ach_bananas_3", "ach_bananas_4",
      "ach_prestige_1", "ach_prestige_2">>

RECURSIVE SumTo(_, _, _)
SumTo(f, order, i) ==
    IF i = 0 THEN 0 ELSE f[order[i]] + SumTo(f, order, i - 1)

\* the sum of f over the ids of a list
SumFn(f, order) == SumTo(f, order, Len(order))

RECURSIVE BoostProduct(_, _)
BoostProduct(m, boosts) ==
    IF boosts = <<>> THEN m
    ELSE BoostProduct(IF Head(boosts).active THEN m * Head(boosts).multiplier
                      ELSE m, Tail(boosts))

get_global_multiplier(gs, ups, achs) ==
    LET dna == 100 + gs.bananaDNA
        pre == IF ups["prestige_1"] > 0
               THEN dna * Pow(DEFAULT_UPGRADES["prestige_1"].multiplier,
                              ups["prestige_1"])
               ELSE dna
        ach == SumFn([a \in AchIds |-> IF achs[a].unlocked
                                        THEN DEFAULT_ACHIEVEMENTS[a].reward
                                        ELSE 0], AchOrder)
    IN  BoostProduct(pre + ach, gs.activeBoosts)

TypeTotal(cat, order, ups, type) ==
    SumFn([u \in DOMAIN cat |-> IF cat[u].type = type /\ ups[u] > 0
                                 THEN cat[u].multiplier * ups[u] ELSE 0],
          order)

calculate_bananas_per_click(ups, gs, achs) ==
    LET clicks == 1 + TypeTotal(DEFAULT_UPGRADES, UpgradeOrder, ups, "click")
        auto_count == SumFn([u \in UpgradeIds |->
                               IF DEFAULT_UPGRADES[u].type = "auto"
                               THEN ups[u] ELSE 0], UpgradeOrder)
        total == IF ups["synergy_2"] > 0
                 THEN clicks + ((auto_count * clicks) \div 10)
                 ELSE clicks
    IN  (total * get_global_multiplier(gs, ups, achs)) \div 100

calculate_bananas_per_second(ups, gs, achs) ==
    LET autos == TypeTotal(DEFAULT_UPGRADES, UpgradeOrder, ups, "auto")
        bots == IF ups["synergy_1"] > 0
                THEN autos + ((calculate_bananas_per_click(ups, gs, achs)
                               * ups["synergy_1"]) \div 10)
                ELSE autos
        total == IF ups["prestige_2"] > 0
                 THEN bots * Pow(DEFAULT_UPGRADES["prestige_2"].multiplier,
                                 ups["prestige_2"])
                 ELSE bots
    IN  total * get_global_multiplier(gs, ups, achs)

update_stats(gs, ups, achs) ==
    [gs EXCEPT !.bananasPerClick = calculate_bananas_per_click(ups, gs, achs),
               !.bananasPerSecond = calculate_bananas_per_second(ups, gs, achs)]

main_calculate_bananas_per_click(ups) ==
    1 + TypeTotal(main_DEFAULT_UPGRADES, main_UpgradeOrder, ups, "click")

main_calculate_bananas_per_second(ups) ==
    100 * TypeTotal(main_DEFAULT_UPGRADES, main_UpgradeOrder, ups, "auto")

(***************************************************************************)
(* Session state.  A session id carries its creation second and a random   *)
(* token; a player name is a sequence of characters.                       *)
(***************************************************************************)
Tokens == {"a"}

generate_session_id(t, tok) == [ts |-> t \div 1000, tok |-> tok]

BogusId == [ts |-> -1, tok |-> "none"]

\* create_initial_state with one banana DNA
create_initial_state_one_dna(sid, t) ==
    [sessionId |-> sid, bananas |-> FxInt(0), bananasPerClick |-> 1,
     bananasPerSecond |-> 0, totalClicks |-> 0, lastSyncTime |-> t,
     playerName |-> <<>>, bananaDNA |-> 1, totalBananasEarned |-> FxInt(0),
     prestigeCount |-> 0, selectedSkin |-> "default",
     ownedSkins |-> {"default"}, activeBoosts |-> <<>>, lastEventCheck |-> t]

create_initial_state(sid, t) ==
    [sessionId |-> sid, bananas |-> FxInt(0), bananasPerClick |-> 1,
     bananasPerSecond |-> 0, totalClicks |-> 0, lastSyncTime |-> t,
     playerName |-> <<>>, bananaDNA |-> 0, totalBananasEarned |-> FxInt(0),
     prestigeCount |-> 0, selectedSkin |-> "default",
     ownedSkins |-> {"default"}, activeBoosts |-> <<>>, lastEventCheck |-> t]

main_create_initial_state(sid, t) ==
    [sessionId |-> sid, bananas |-> FxInt(0), bananasPerClick |-> 1,
     bananasPerSecond |-> 0, totalClicks |-> 0, lastSyncTime |-> t,
     playerName |-> <<>>]

RECURSIVE LStrip(_)
LStrip(s) == IF s # <<>> /\ Head(s) = " " THEN LStrip(Tail(s)) ELSE s

RECURSIVE RStrip(_)
RStrip(s) ==
    IF s # <<>> /\ s[Len(s)] = " " THEN RStrip(SubSeq(s, 1, Len(s) - 1)) ELSE s

\* str.strip()
strip(s) == RStrip(LStrip(s))

\* player_name[:20]
Prefix(s, n) == SubSeq(s, 1, IF Len(s) < n THEN Len(s) ELSE n)

(***************************************************************************)
(* Achievements and events of the enhanced game.                           *)
(***************************************************************************)
Satisfied(gs, a) ==
    LET req == DEFAULT_ACHIEVEMENTS[a]
    IN  CASE req.metric = "clicks" -> gs.totalClicks >= req.value
          [] req.metric = "bananas" ->
                 ~FxLess(gs.totalBananasEarned, FxInt(req.value))
          [] req.metric = "prestige" -> gs.prestigeCount >= req.value
          [] OTHER -> FALSE

\* check_achievements without the skip of unlocked entries
check_achievements_recheck(gs, achs, t) ==
    [a \in AchIds |->
        IF Satisfied(gs, a) THEN [unlocked |-> TRUE, unlockedAt |-> t]
        ELSE Locked]

check_achievements(gs, achs, t) ==
    [a \in AchIds |->
        IF achs[a].unlocked THEN achs[a]
        ELSE IF Satisfied(gs, a) THEN [unlocked |-> TRUE, unlockedAt |-> t]
        ELSE achs[a]]

EventKinds ==
    [rain     |-> [duration |-> 60, multiplier |-> 2],
     festival |-> [duration |-> 120, multiplier |-> 1],
     golden   |-> [duration |-> 10, multiplier |-> 1]]

EventId(sid, t) == [sid |-> sid, sec |-> t \div 1000]

spawn_random_event(events, sid, kind, t) ==
    (EventId(sid, t) :> [type |-> kind, startTime |-> t,
                         duration |-> EventKinds[kind].duration,
                         multiplier |-> EventKinds[kind].multiplier])
    @@ events

\* get_active_events without the test of the owning session
get_active_events_any_session(events, sid, t) ==
    LET live == {e \in DOMAIN events : t - events[e].startTime
                                           < events[e].duration * 1000}
    IN  [active |-> live, registry |-> [e \in live |-> events[e]]]

\* the ids returned, and the registry after the expired ones were deleted
get_active_events(events, sid, t) ==
    LET mine == {e \in DOMAIN events : e.sid = sid}
        live == {e \in mine : t - events[e].startTime
                                  < events[e].duration * 1000}
    IN  [active |-> live,
         registry |-> [e \in (DOMAIN events \ (mine \ live)) |-> events[e]]]

RainFactor(events, active) ==
    Pow(EventKinds["rain"].multiplier,
        Cardinality({e \in active : events[e].type = "rain"}))

FxScale(a, k) == FxNorm(a.w * k, a.f * k)

(***************************************************************************)
(* Persistence and leaderboard.                                            *)
(***************************************************************************)
Mem == [game_sessions |-> game_sessions, upgrades_data |-> upgrades_data,
        leaderboard_data |-> leaderboard_data,
        achievements_data |-> achievements_data]

EmptyMem == [game_sessions |-> <<>>, upgrades_data |-> <<>>,
             leaderboard_data |-> <<>>, achievements_data |-> <<>>]

NoFile == [exists |-> FALSE, mem |-> EmptyMem]

save_data(mem) == [exists |-> TRUE, mem |-> mem]

load_data(mem, d) == IF d.exists THEN d.mem ELSE mem

RECURSIVE InsertDesc(_, _)
InsertDesc(e, s) ==
    IF s = <<>> THEN <<e>>
    ELSE IF Head(s).score >= e.score THEN <<Head(s)>> \o InsertDesc(e, Tail(s))
    ELSE <<e>> \o s

\* sorted(entries, key=score, reverse=True): stable
RECURSIVE SortDesc(_)
SortDesc(s) ==
    IF s = <<>> THEN <<>>
    ELSE InsertDesc(s[Len(s)], SortDesc(SubSeq(s, 1, Len(s) - 1)))

\* Top without the truncation
Top_untruncated(s) == s

Top(s) == SubSeq(s, 1, IF Len(s) < LEADERBOARD_SIZE THEN Len(s)
                       ELSE LEADERBOARD_SIZE)

sanitize_leaderboard(entries) ==
    [i \in 1..Len(entries) |->
        [name |-> entries[i].name, score |-> entries[i].score,
         date |-> entries[i].date,
         prestigeCount |-> entries[i].prestigeCount]]

get_leaderboard(mem) == sanitize_leaderboard(Top(SortDesc(mem.leaderboard_data)))

main_get_leaderboard(mem) == Top(SortDesc(mem.leaderboard_data))

EntryOf(lb, sid) == {i \in 1..Len(lb) : lb[i].sessionId = sid}

\* Upsert replacing the entry of the session whatever the score
Upsert_any_score(lb, entry) ==
    IF EntryOf(lb, entry.sessionId) # {}
    THEN LET i == CHOOSE j \in EntryOf(lb, entry.sessionId) : TRUE
         IN  [lb EXCEPT ![i] = [entry EXCEPT !.sessionId = lb[i].sessionId]]
    ELSE Append(lb, [entry EXCEPT !.name = Prefix(entry.name, NAME_LIMIT)])

\* the entries after the update rule, before sorting
Upsert(lb, entry) ==
    IF EntryOf(lb, entry.sessionId) # {}
    THEN LET i == CHOOSE j \in EntryOf(lb, entry.sessionId) :
                      \A k \in EntryOf(lb, entry.sessionId) : j <= k
         IN  IF entry.score > lb[i].score
             THEN [lb EXCEPT ![i] = [entry EXCEPT !.sessionId = lb[i].sessionId]]
             ELSE lb
    ELSE Append(lb, [entry EXCEPT !.name = Prefix(entry.name, NAME_LIMIT)])

\* memory and disk after the call, and the list returned
update_leaderboard(mem, d, sid, player_name, score, prestige_count, t) ==
    LET loaded == load_data(mem, d)
        entry == [name |-> player_name, score |-> score, date |-> t,
                  sessionId |-> sid, prestigeCount |-> prestige_count]
        after == [loaded EXCEPT !.leaderboard_data =
                      Top(SortDesc(Upsert(loaded.leaderboard_data, entry)))]
    IN  [mem |-> after, disk |-> save_data(after),
         result |-> sanitize_leaderboard(after.leaderboard_data)]

main_update_leaderboard(mem, d, sid, player_name, score, t) ==
    LET loaded == load_data(mem, d)
        entry == [name |-> player_name, score |-> score, date |-> t,
                  sessionId |-> sid]
        after == [loaded EXCEPT !.leaderboard_data =
                      Top(SortDesc(Upsert(loaded.leaderboard_data, entry)))]
    IN  [mem |-> after, disk |-> save_data(after),
         result |-> after.leaderboard_data]

(***************************************************************************)
(* Requests, responses and the initial state.                              *)
(***************************************************************************)
Ann == <<"A", "n", "n">>

Blank == <<" ">>

\* a name of NAME_LIMIT + 1 characters
LongName == [i \in 1..(NAME_LIMIT + 1) |-> "x"]

\* the clock when the model starts, in ms; the sessions of a snapshot were
\* created in second 0
START_TIME == 1000

Deltas == {1000, 28801000}

PendingClicks == {-5, 0, 5, 10000}

BuyIds == {"click_1", "auto_1", "prestige_1", "bogus"}

SkinIds == {"pixel", "default", "bogus"}

NameInputs == {Blank, LongName}

SpawnChoices == {"none", "rain", "festival", "golden"}

NoState == [sessionId |-> BogusId]

BaseResp ==
    [op |-> "start", sid |-> BogusId, ok |-> FALSE, err |-> "",
     raised |-> FALSE, gameState |-> NoState, upgrades |-> <<>>, leaderboard |-> <<>>,
     pendingClicks |-> 0, actualClicks |-> 0, elapsed |-> 0,
     timeEarnings |-> FxInt(0), upgradeId |-> "", cost |-> 0, reward |-> 0,
     bound |-> 0, multiplier |-> 0, eventId |-> EventId(BogusId, 0),
     activeEvents |-> {}]

Fail(op, sid, err) == [BaseResp EXCEPT !.op = op, !.sid = sid, !.err = err]

\* what the store held for a session when its request arrived
NoPrior == [gameState |-> NoState, upgrades |-> <<>>, achievements |-> <<>>]

Stored(sid) ==
    IF sid \in DOMAIN game_sessions
    THEN [gameState |-> game_sessions[sid],
          upgrades |-> IF sid \in DOMAIN upgrades_data
                       THEN upgrades_data[sid] ELSE <<>>,
          achievements |-> IF sid \in DOMAIN achievements_data
                           THEN achievements_data[sid] ELSE <<>>]
    ELSE NoPrior

Commit(mem, d) ==
    /\ game_sessions' = mem.game_sessions
    /\ upgrades_data' = mem.upgrades_data
    /\ leaderboard_data' = mem.leaderboard_data
    /\ achievements_data' = mem.achievements_data
    /\ disk' = d

\* time passes before a request: one wait between two requests
Tick(d) ==
    /\ ticks < MaxTicks
    /\ steps < MaxSteps
    /\ ~waited
    /\ ticks' = ticks + 1
    /\ waited' = TRUE
    /\ now' = now + d
    /\ UNCHANGED <<app, steps, clients, game_sessions, upgrades_data,
                   achievements_data, leaderboard_data, active_events, disk,
                   resp, prior>>

Named(gs) == strip(gs.playerName) # <<>>

(***************************************************************************)
(* Handlers of the enhanced game (src/enhanced_game.py).  A handler's      *)
(* local values are bound once, in the order the code computes them, with  *)
(* \E x \in {value}.                                                       *)
(***************************************************************************)
\* the memory with one session's bundle replaced
Put(mem, sid, gs, ups, achs) ==
    [mem EXCEPT !.game_sessions = (sid :> gs) @@ @,
                !.upgrades_data = (sid :> ups) @@ @,
                !.achievements_data = (sid :> achs) @@ @]

PutState(mem, sid, gs) == [mem EXCEPT !.game_sessions = (sid :> gs) @@ @]

Unchanged ==
    UNCHANGED <<game_sessions, upgrades_data, achievements_data,
                leaderboard_data, disk>>

\* the auto-update of the leaderboard at the end of sync_game and buy_upgrade
auto_update(mem, d, sid, gs, t) ==
    IF Named(gs)
    THEN update_leaderboard(mem, d, sid, gs.playerName, FxTrunc(gs.bananas),
                            gs.prestigeCount, t)
    ELSE [mem |-> mem, disk |-> d, result |-> get_leaderboard(mem)]

init_game(reqSid, tok) ==
    /\ app = "enhanced"
    /\ UNCHANGED <<app, now, ticks>>
    /\ \E known \in {reqSid # BogusId /\ reqSid \in DOMAIN game_sessions} :
       \E sid \in {IF known THEN reqSid ELSE generate_session_id(now, tok)} :
       \E gs \in {IF known THEN game_sessions[sid]
                  ELSE create_initial_state(sid, now)},
          ups \in {IF known THEN upgrades_data[sid]
                   ELSE create_default_upgrades},
          achs \in {IF known /\ sid \in DOMAIN achievements_data
                    THEN achievements_data[sid]
                    ELSE create_default_achievements},
          ev \in {get_active_events(active_events, sid, now)} :
       \E gs1 \in {update_stats(gs, ups, achs)} :
       \E mem1 \in {IF known THEN PutState(Mem, sid, gs1)
                     ELSE Put(Mem, sid, gs1, ups, achs)} :
           /\ Commit(mem1, disk)
           /\ active_events' = ev.registry
           /\ clients' = clients \cup {sid}
           /\ resp' = [BaseResp EXCEPT !.op = "init", !.sid = sid, !.ok = TRUE,
                                       !.gameState = gs1, !.upgrades = ups,
                                       !.leaderboard = get_leaderboard(mem1),
                                       !.activeEvents = ev.active]

\* sync_clicks without the rate limit
sync_clicks_unclamped(pending, elapsed) == pending

\* min(request.pendingClicks, max_clicks)
sync_clicks(pending, elapsed) ==
    IF pending < CeilClicks(elapsed) THEN pending ELSE CeilClicks(elapsed)

sync_time_earnings(gs, elapsed, events, active) ==
    FxScale(FxRate(gs.bananasPerSecond, elapsed), RainFactor(events, active))

\* sync_credit without the line that adds to totalBananasEarned
sync_credit_current_only(gs, time_earnings, actual_clicks, t) ==
    LET total_earned ==
            FxAdd(time_earnings, FxInt(actual_clicks * gs.bananasPerClick))
    IN  [gs EXCEPT !.bananas = FxAdd(@, total_earned),
                   !.totalClicks = @ + actual_clicks,
                   !.lastSyncTime = t]

sync_credit(gs, time_earnings, actual_clicks, t) ==
    LET total_earned ==
            FxAdd(time_earnings, FxInt(actual_clicks * gs.bananasPerClick))
    IN  [gs EXCEPT !.bananas = FxAdd(@, total_earned),
                   !.totalBananasEarned = FxAdd(@, total_earned),
                   !.totalClicks = @ + actual_clicks,
                   !.lastSyncTime = t]

sync_game(sid, pending, kind) ==
    /\ app = "enhanced"
    /\ UNCHANGED <<app, now, ticks, clients>>
    /\ IF sid \notin DOMAIN game_sessions
       THEN /\ kind = "none"
            /\ resp' = [Fail("sync", sid, "InvalidSession") EXCEPT
                           !.gameState = create_initial_state(sid, now),
                           !.leaderboard = get_leaderboard(Mem),
                           !.pendingClicks = pending]
            /\ UNCHANGED active_events
            /\ Unchanged
       ELSE \E gs \in {game_sessions[sid]}, ups \in {upgrades_data[sid]},
               achs \in {achievements_data[sid]},
               ev \in {get_active_events(active_events, sid, now)} :
            \E due \in {now - gs.lastEventCheck > EVENT_CHECK_MS} :
            /\ due \/ kind = "none"
            /\ \E elapsed \in {now - gs.lastSyncTime} :
               \E actual \in {sync_clicks(pending, elapsed)},
                  time_earnings \in {sync_time_earnings(gs, elapsed,
                                          active_events, ev.active)} :
               \E credited \in {sync_credit(gs, time_earnings, actual, now)} :
               \E gs1 \in {update_stats(credited, ups, achs)} :
               \E achs1 \in {check_achievements(gs1, achs, now)} :
               \E gs2 \in {IF due THEN [gs1 EXCEPT !.lastEventCheck = now]
                           ELSE gs1} :
               \E mem1 \in {Put(Mem, sid, gs2, ups, achs1)} :
               \E upd \in {auto_update(mem1, disk, sid, gs2, now)} :
                   /\ Commit(upd.mem, save_data(upd.mem))
                   /\ active_events' =
                          IF due /\ kind # "none"
                          THEN spawn_random_event(ev.registry, sid, kind, now)
                          ELSE ev.registry
                   /\ resp' = [BaseResp EXCEPT
                                  !.op = "sync", !.sid = sid, !.ok = TRUE,
                                  !.gameState = gs2, !.upgrades = ups,
                                  !.leaderboard = upd.result,
                                  !.pendingClicks = pending,
                                  !.actualClicks = actual, !.elapsed = elapsed,
                                  !.timeEarnings = time_earnings,
                                  !.activeEvents =
                                      IF due /\ kind # "none"
                                      THEN ev.active \cup {EventId(sid, now)}
                                      ELSE ev.active]

\* the outcome of the purchase logic on the handler's objects:
\* "crash" is an exception that leaves the handler before any mutation
buy_outcome(gs, ups, uid) ==
    IF DEFAULT_UPGRADES[uid].unlock > 0
    THEN \* both paths read the local `cost` before it is assigned
         [kind |-> "crash", err |-> "UnboundLocalError", gs |-> gs,
          ups |-> ups, cost |-> 0]
    ELSE IF DEFAULT_UPGRADES[uid].type = "prestige"
    THEN IF gs.bananaDNA < calculate_upgrade_cost(uid, ups[uid])
         THEN [kind |-> "fail", err |-> "InsufficientFunds", gs |-> gs,
               ups |-> ups, cost |-> calculate_upgrade_cost(uid, ups[uid])]
         ELSE [kind |-> "ok", err |-> "",
               gs |-> [gs EXCEPT !.bananaDNA =
                           @ - calculate_upgrade_cost(uid, ups[uid])],
               ups |-> [ups EXCEPT ![uid] = @ + 1],
               cost |-> calculate_upgrade_cost(uid, ups[uid])]
    ELSE IF FxLess(gs.bananas, FxInt(calculate_upgrade_cost(uid, ups[uid])))
    THEN \* the message subscripts unlockRequirement, which is None
         [kind |-> "crash", err |-> "TypeError", gs |-> gs, ups |-> ups,
          cost |-> calculate_upgrade_cost(uid, ups[uid])]
    ELSE [kind |-> "ok", err |-> "", gs |-> gs,
          ups |-> [ups EXCEPT ![uid] = @ + 1],
          cost |-> calculate_upgrade_cost(uid, ups[uid])]

buy_upgrade(sid, uid) ==
    /\ app = "enhanced"
    /\ UNCHANGED <<app, now, ticks, clients, active_events>>
    /\ IF sid \notin DOMAIN game_sessions
       THEN /\ resp' = [Fail("upgrade", sid, "InvalidSession") EXCEPT
                           !.gameState = create_initial_state(sid, now),
                           !.leaderboard = get_leaderboard(Mem),
                           !.upgradeId = uid]
            /\ Unchanged
       ELSE IF uid \notin DOMAIN upgrades_data[sid]
       THEN /\ resp' = [Fail("upgrade", sid, "UnknownUpgrade") EXCEPT
                           !.gameState = game_sessions[sid],
                           !.upgrades = upgrades_data[sid],
                           !.leaderboard = get_leaderboard(Mem),
                           !.upgradeId = uid]
            /\ Unchanged
       ELSE \E out \in {buy_outcome(game_sessions[sid], upgrades_data[sid],
                                     uid)},
               achs \in {achievements_data[sid]} :
            IF out.kind = "ok"
            THEN \E gs1 \in {update_stats(out.gs, out.ups, achs)} :
                 \E mem1 \in {Put(Mem, sid, gs1, out.ups, achs)} :
                 \E upd \in {auto_update(mem1, disk, sid, gs1, now)} :
                     /\ Commit(upd.mem, save_data(upd.mem))
                     /\ resp' = [BaseResp EXCEPT
                                    !.op = "upgrade", !.sid = sid, !.ok = TRUE,
                                    !.gameState = gs1, !.upgrades = out.ups,
                                    !.leaderboard = upd.result,
                                    !.upgradeId = uid, !.cost = out.cost]
            ELSE /\ resp' = [Fail("upgrade", sid, out.err) EXCEPT
                                !.raised = (out.kind = "crash"),
                                !.gameState = game_sessions[sid],
                                !.upgrades = upgrades_data[sid],
                                !.leaderboard = IF out.kind = "crash" THEN <<>>
                                                ELSE get_leaderboard(Mem),
                                !.upgradeId = uid, !.cost = out.cost]
                 /\ Unchanged

\* prestige_blocked with the DNA divisor in the place of the minimum
prestige_blocked_low(gs) == FxLess(gs.totalBananasEarned, FxInt(DNA_DIVISOR))

\* the 1,000,000,000 lifetime bananas gate
prestige_blocked(gs) == FxLess(gs.totalBananasEarned, FxInt(PRESTIGE_MIN))

\* dna_gained with the prestige minimum in the place of the divisor
dna_gained_per_minimum(gs) == FxTrunc(gs.totalBananasEarned) \div PRESTIGE_MIN

\* int(totalBananasEarned / 100_000_000)
dna_gained(gs) == FxTrunc(gs.totalBananasEarned) \div DNA_DIVISOR

\* prestige_state with the award subtracted
prestige_state_dna_subtracted(gs, gained, t) ==
    [gs EXCEPT !.bananas = FxInt(0), !.bananasPerClick = 1,
               !.bananasPerSecond = 0, !.totalClicks = 0,
               !.totalBananasEarned = FxInt(0),
               !.bananaDNA = @ - gained, !.prestigeCount = @ + 1,
               !.activeBoosts = <<>>, !.lastSyncTime = t]

prestige_state(gs, gained, t) ==
    [gs EXCEPT !.bananas = FxInt(0), !.bananasPerClick = 1,
               !.bananasPerSecond = 0, !.totalClicks = 0,
               !.totalBananasEarned = FxInt(0),
               !.bananaDNA = @ + gained, !.prestigeCount = @ + 1,
               !.activeBoosts = <<>>, !.lastSyncTime = t]

\* prestige_upgrades keeping every owned count
prestige_upgrades_all_kept(ups) == [u \in UpgradeIds |-> ups[u]]

prestige_upgrades(ups) ==
    [u \in UpgradeIds |->
        IF u \in DOMAIN ups /\ DEFAULT_UPGRADES[u].type = "prestige"
        THEN ups[u] ELSE 0]

prestige_game(sid) ==
    /\ app = "enhanced"
    /\ UNCHANGED <<app, now, ticks, clients, active_events>>
    /\ IF sid \notin DOMAIN game_sessions
       THEN /\ resp' = Fail("prestige", sid, "InvalidSession")
            /\ Unchanged
       ELSE IF prestige_blocked(game_sessions[sid])
       THEN /\ resp' = [Fail("prestige", sid, "ThresholdNotMet") EXCEPT
                           !.gameState = game_sessions[sid]]
            /\ Unchanged
       ELSE \E gs \in {game_sessions[sid]} :
            \E gained \in {dna_gained(gs)} :
            \E gs1 \in {prestige_state(gs, gained, now)},
               ups1 \in {prestige_upgrades(upgrades_data[sid])} :
            \E achs1 \in {check_achievements(gs1, achievements_data[sid],
                                             now)} :
            \E gs2 \in {update_stats(gs1, ups1, achs1)} :
            \E mem1 \in {Put(Mem, sid, gs2, ups1, achs1)} :
                /\ Commit(mem1, save_data(mem1))
                /\ resp' = [BaseResp EXCEPT
                               !.op = "prestige", !.sid = sid, !.ok = TRUE,
                               !.gameState = gs2, !.upgrades = ups1,
                               !.reward = gained]

skin_state(gs, skin) ==
    IF skin \in gs.ownedSkins
    THEN [gs EXCEPT !.selectedSkin = skin]
    ELSE [gs EXCEPT !.bananas = FxSub(@, FxInt(AVAILABLE_SKINS[skin])),
                    !.ownedSkins = @ \cup {skin},
                    !.selectedSkin = skin]

buy_skin(sid, skin) ==
    /\ app = "enhanced"
    /\ UNCHANGED <<app, now, ticks, clients, active_events>>
    /\ IF sid \notin DOMAIN game_sessions
       THEN /\ resp' = Fail("skin", sid, "InvalidSession")
            /\ Unchanged
       ELSE IF skin \notin DOMAIN AVAILABLE_SKINS
       THEN /\ resp' = Fail("skin", sid, "InvalidSkin")
            /\ Unchanged
       ELSE IF /\ skin \notin game_sessions[sid].ownedSkins
               /\ FxLess(game_sessions[sid].bananas,
                         FxInt(AVAILABLE_SKINS[skin]))
       THEN /\ resp' = [Fail("skin", sid, "InsufficientFunds") EXCEPT
                           !.gameState = game_sessions[sid],
                           !.cost = AVAILABLE_SKINS[skin]]
            /\ Unchanged
       ELSE \E gs1 \in {skin_state(game_sessions[sid], skin)} :
            \E mem1 \in {PutState(Mem, sid, gs1)} :
                /\ Commit(mem1, save_data(mem1))
                /\ resp' = [BaseResp EXCEPT
                               !.op = "skin", !.sid = sid, !.ok = TRUE,
                               !.gameState = gs1,
                               !.cost = AVAILABLE_SKINS[skin]]

\* max(int(bananas * 0.01), 100)
golden_reward(gs) ==
    IF FxTrunc(gs.bananas) \div 100 > GOLDEN_MIN_REWARD
    THEN FxTrunc(gs.bananas) \div 100 ELSE GOLDEN_MIN_REWARD

click_credit(gs, reward) ==
    [gs EXCEPT !.bananas = FxAdd(@, FxInt(reward)),
               !.totalBananasEarned = FxAdd(@, FxInt(reward))]

click_event_kept(sid, eid) ==
    /\ app = "enhanced"
    /\ UNCHANGED <<app, now, ticks, clients>>
    /\ IF sid \notin DOMAIN game_sessions
       THEN /\ resp' = [Fail("click", sid, "InvalidSession") EXCEPT
                               !.eventId = eid]
            /\ UNCHANGED active_events
            /\ Unchanged
       ELSE IF eid \notin DOMAIN active_events
       THEN /\ resp' = [Fail("click", sid, "UnknownEvent") EXCEPT
                               !.eventId = eid]
            /\ UNCHANGED active_events
            /\ Unchanged
       ELSE IF active_events[eid].type # "golden"
       THEN /\ resp' = [Fail("click", sid, "NotClickable") EXCEPT
                               !.eventId = eid]
            /\ UNCHANGED active_events
            /\ Unchanged
       ELSE \E reward \in {golden_reward(game_sessions[sid])} :
            \E gs1 \in {click_credit(game_sessions[sid], reward)} :
            \E mem1 \in {PutState(Mem, sid, gs1)} :
                /\ Commit(mem1, save_data(mem1))
                /\ active_events' = active_events
                /\ resp' = [BaseResp EXCEPT
                               !.op = "click", !.sid = sid, !.ok = TRUE,
                               !.gameState = gs1, !.reward = reward,
                               !.eventId = eid]

click_event(sid, eid) ==
    /\ app = "enhanced"
    /\ UNCHANGED <<app, now, ticks, clients>>
    /\ IF sid \notin DOMAIN game_sessions
       THEN /\ resp' = [Fail("click", sid, "InvalidSession") EXCEPT
                               !.eventId = eid]
            /\ UNCHANGED active_events
            /\ Unchanged
       ELSE IF eid \notin DOMAIN active_events
       THEN /\ resp' = [Fail("click", sid, "UnknownEvent") EXCEPT
                               !.eventId = eid]
            /\ UNCHANGED active_events
            /\ Unchanged
       ELSE IF active_events[eid].type # "golden"
       THEN /\ resp' = [Fail("click", sid, "NotClickable") EXCEPT
                               !.eventId = eid]
            /\ UNCHANGED active_events
            /\ Unchanged
       ELSE \E reward \in {golden_reward(game_sessions[sid])} :
            \E gs1 \in {click_credit(game_sessions[sid], reward)} :
            \E mem1 \in {PutState(Mem, sid, gs1)} :
                /\ Commit(mem1, save_data(mem1))
                /\ active_events' =
                       [e \in DOMAIN active_events \ {eid} |-> active_events[e]]
                /\ resp' = [BaseResp EXCEPT
                               !.op = "click", !.sid = sid, !.ok = TRUE,
                               !.gameState = gs1, !.reward = reward,
                               !.eventId = eid]

submit_score(sid, name) ==
    /\ app = "enhanced"
    /\ UNCHANGED <<app, now, ticks, clients, active_events>>
    /\ IF sid \notin DOMAIN game_sessions
       THEN /\ resp' = Fail("submit", sid, "InvalidSession")
            /\ Unchanged
       ELSE IF strip(name) = <<>>
       THEN /\ resp' = Fail("submit", sid, "EmptyName")
            /\ Unchanged
       ELSE \E trimmed_name \in {strip(name)} :
            \E gs1 \in {[game_sessions[sid] EXCEPT
                             !.playerName = trimmed_name]} :
            \E mem1 \in {PutState(Mem, sid, gs1)} :
            \E upd \in {update_leaderboard(mem1, disk, sid, trimmed_name,
                                           FxTrunc(gs1.bananas),
                                           gs1.prestigeCount, now)} :
                /\ Commit(upd.mem, save_data(upd.mem))
                /\ resp' = [BaseResp EXCEPT
                               !.op = "submit", !.sid = sid, !.ok = TRUE,
                               !.gameState = gs1,
                               !.upgrades = upgrades_data[sid],
                               !.leaderboard = upd.result]

\* reset_game without the check of the session id
reset_game_unchecked(sid) ==
    /\ app = "enhanced"
    /\ UNCHANGED <<app, now, ticks, clients, active_events>>
    /\ \E mem1 \in {Put(Mem, sid, create_initial_state(sid, now),
                         create_default_upgrades,
                         create_default_achievements)} :
           /\ Commit(mem1, save_data(mem1))
           /\ resp' = [BaseResp EXCEPT
                          !.op = "reset", !.sid = sid, !.ok = TRUE,
                          !.gameState = create_initial_state(sid, now),
                          !.upgrades = create_default_upgrades]

reset_game(sid) ==
    /\ app = "enhanced"
    /\ UNCHANGED <<app, now, ticks, clients, active_events>>
    /\ IF sid \notin DOMAIN game_sessions
       THEN /\ resp' = Fail("reset", sid, "InvalidSession")
            /\ Unchanged
       ELSE \E mem1 \in {Put(Mem, sid, create_initial_state(sid, now),
                              create_default_upgrades,
                              create_default_achievements)} :
                /\ Commit(mem1, save_data(mem1))
                /\ resp' = [BaseResp EXCEPT
                               !.op = "reset", !.sid = sid, !.ok = TRUE,
                               !.gameState = create_initial_state(sid, now),
                               !.upgrades = create_default_upgrades]

get_leaderboard_endpoint ==
    /\ app = "enhanced"
    /\ UNCHANGED <<app, now, ticks, clients, active_events>>
    /\ Unchanged
    /\ resp' = [BaseResp EXCEPT !.op = "leaderboard", !.ok = TRUE,
                                !.leaderboard = get_leaderboard(Mem)]

(***************************************************************************)
(* Handlers of the main game (src/main.py).                                *)
(***************************************************************************)
main_calculate_time_based_earnings(gs, t) ==
    IF gs.bananasPerSecond <= 0 THEN FxInt(0)
    ELSE FxRate(gs.bananasPerSecond,
                IF t - gs.lastSyncTime < MAX_OFFLINE_SECONDS * 1000
                THEN t - gs.lastSyncTime ELSE MAX_OFFLINE_SECONDS * 1000)

RECURSIVE SpentOn(_, _)
SpentOn(base, owned) ==
    IF owned <= 0 THEN 0
    ELSE FloorCost(base, owned - 1) + SpentOn(base, owned - 1)

\* the total with the costs of purchases 2 .. owned + 1 in the place of
\* purchases 1 .. owned
main_calculate_total_spent_shifted(ups) ==
    SumFn([u \in DOMAIN ups |->
              SpentOn(main_DEFAULT_UPGRADES[u].baseCost, ups[u] + 1)
              - SpentOn(main_DEFAULT_UPGRADES[u].baseCost, 1)],
          main_UpgradeOrder)

main_calculate_total_spent_on_upgrades(ups) ==
    SumFn([u \in DOMAIN ups |->
              SpentOn(main_DEFAULT_UPGRADES[u].baseCost, ups[u])],
          main_UpgradeOrder)

main_calculate_maximum_possible_bananas(gs, ups, t) ==
    LET max_from_clicks == gs.totalClicks * gs.bananasPerClick
        max_from_time == main_calculate_time_based_earnings(
                             [gs EXCEPT !.bananasPerSecond =
                                 IF @ < 0 THEN 0 ELSE @], t)
        total_spent == main_calculate_total_spent_on_upgrades(ups)
        max_possible == FxTrunc(FxAdd(max_from_time,
                                      FxInt(max_from_clicks - total_spent)))
    IN  IF max_possible > 0 THEN max_possible ELSE 0

\* validator.py: max_from_time of validate_session, run at time t on a saved
\* session; the creation second is read from the session id
validator_max_from_time(sid, gs, t) ==
    FxRate(gs.bananasPerSecond,
           IF t - sid.ts * 1000 < MAX_OFFLINE_SECONDS * 1000
           THEN t - sid.ts * 1000 ELSE MAX_OFFLINE_SECONDS * 1000)

\* validator.py works on the save file of either program
validator_catalog == IF app = "main" THEN main_DEFAULT_UPGRADES
                     ELSE DEFAULT_UPGRADES

validator_order == IF app = "main" THEN main_UpgradeOrder ELSE UpgradeOrder

validator_calculate_total_spent(ups) ==
    SumFn([u \in DOMAIN ups |-> SpentOn(validator_catalog[u].baseCost, ups[u])],
          validator_order)

validator_calculate_bananas_per_click(ups) ==
    1 + SumFn([u \in DOMAIN ups |->
                  IF validator_catalog[u].type = "click"
                  THEN validator_catalog[u].multiplier * ups[u] ELSE 0],
              validator_order)

\* in hundredths
validator_calculate_bananas_per_second(ups) ==
    100 * SumFn([u \in DOMAIN ups |->
                    IF validator_catalog[u].type = "auto"
                    THEN validator_catalog[u].multiplier * ups[u] ELSE 0],
                validator_order)

\* excess > bound * 0.1, for fixed-point excess and bound
ExceedsTenth(excess, bound) ==
    \/ excess.w > bound.w \div 10
    \/ /\ excess.w = bound.w \div 10
       /\ excess.f * 10 > (bound.w % 10) * FRAC + bound.f

\* current_with_spending > max_possible + tolerance
validator_impossible(current_with_spending, max_from_clicks, max_from_time) ==
    ExceedsTenth(FxSub(current_with_spending,
                       FxAdd(FxInt(max_from_clicks), max_from_time)),
                 FxAdd(FxInt(max_from_clicks), max_from_time))

\* the report of validate_session run at time t on a saved session
validate_session(mem, sid, t) ==
    LET gs == mem.game_sessions[sid]
        ups == mem.upgrades_data[sid]
        total_spent == validator_calculate_total_spent(ups)
        click_mismatch ==
            gs.bananasPerClick # validator_calculate_bananas_per_click(ups)
        diff == gs.bananasPerSecond
                    - validator_calculate_bananas_per_second(ups)
        second_mismatch == (IF diff < 0 THEN -diff ELSE diff) > 10
        max_from_clicks == gs.totalClicks * gs.bananasPerClick
        max_from_time == validator_max_from_time(sid, gs, t)
        current_with_spending == FxAdd(gs.bananas, FxInt(total_spent))
        impossible == validator_impossible(current_with_spending,
                                           max_from_clicks, max_from_time)
    IN  [is_valid |-> ~(click_mismatch \/ second_mismatch \/ impossible),
         click_mismatch |-> click_mismatch,
         second_mismatch |-> second_mismatch,
         impossible |-> impossible,
         total_spent |-> total_spent,
         max_from_clicks |-> max_from_clicks,
         max_from_time |-> max_from_time,
         current_with_spending |-> current_with_spending]

MainPut(mem, sid, gs, ups) ==
    [mem EXCEPT !.game_sessions = (sid :> gs) @@ @,
                !.upgrades_data = (sid :> ups) @@ @]

main_update_stats(gs, ups) ==
    [gs EXCEPT !.bananasPerClick = main_calculate_bananas_per_click(ups),
               !.bananasPerSecond = main_calculate_bananas_per_second(ups)]

main_init_game(reqSid, tok) ==
    /\ app = "main"
    /\ UNCHANGED <<app, now, ticks, active_events>>
    /\ \E known \in {reqSid # BogusId /\ reqSid \in DOMAIN game_sessions} :
       \E sid \in {IF known THEN reqSid ELSE generate_session_id(now, tok)} :
       \E gs \in {IF known THEN game_sessions[sid]
                  ELSE main_create_initial_state(sid, now)},
          ups \in {IF known THEN upgrades_data[sid]
                   ELSE main_create_default_upgrades} :
       \E time_earnings \in {main_calculate_time_based_earnings(gs, now)} :
       \E gs1 \in {IF FxLess(FxInt(0), time_earnings)
                   THEN [gs EXCEPT !.bananas = FxAdd(@, time_earnings),
                                   !.lastSyncTime = now]
                   ELSE gs} :
       \E mem1 \in {MainPut(Mem, sid, gs1, ups)} :
           /\ Commit(mem1, disk)
           /\ clients' = clients \cup {sid}
           /\ resp' = [BaseResp EXCEPT !.op = "init", !.sid = sid, !.ok = TRUE,
                                       !.gameState = gs1, !.upgrades = ups,
                                       !.leaderboard = main_get_leaderboard(mem1),
                                       !.timeEarnings = time_earnings]

main_sync_clicks(pending, elapsed) ==
    IF pending > CeilClicks(elapsed) THEN CeilClicks(elapsed) ELSE pending

main_sync_credit(gs, time_earnings, actual_clicks, t) ==
    [gs EXCEPT !.bananas = FxAdd(@, FxAdd(time_earnings,
                                 FxInt(actual_clicks * gs.bananasPerClick))),
               !.totalClicks = @ + actual_clicks,
               !.lastSyncTime = t]

\* the auto-update of the leaderboard at the end of sync_game
main_sync_update(mem, d, sid, gs, t) ==
    IF Named(gs) /\ FxTrunc(gs.bananas) > 0
    THEN main_update_leaderboard(mem, d, sid, gs.playerName,
                                 FxTrunc(gs.bananas), t)
    ELSE [mem |-> mem, disk |-> d, result |-> main_get_leaderboard(mem)]

\* the auto-update of the leaderboard at the end of buy_upgrade
main_buy_update(mem, d, sid, gs, t) ==
    IF Named(gs)
    THEN main_update_leaderboard(mem, d, sid, gs.playerName,
                                 FxTrunc(gs.bananas), t)
    ELSE [mem |-> mem, disk |-> d, result |-> main_get_leaderboard(mem)]

main_sync_game(sid, pending) ==
    /\ app = "main"
    /\ UNCHANGED <<app, now, ticks, clients, active_events>>
    /\ IF sid \notin DOMAIN game_sessions
       THEN /\ resp' = [Fail("sync", sid, "InvalidSession") EXCEPT
                           !.gameState = main_create_initial_state(sid, now),
                           !.leaderboard = main_get_leaderboard(Mem),
                           !.pendingClicks = pending]
            /\ Unchanged
       ELSE \E gs \in {game_sessions[sid]}, ups \in {upgrades_data[sid]} :
            \E elapsed \in {now - gs.lastSyncTime} :
            \E actual \in {main_sync_clicks(pending, elapsed)},
               time_earnings \in {main_calculate_time_based_earnings(gs, now)} :
            \E credited \in {main_sync_credit(gs, time_earnings, actual, now)} :
            \E gs1 \in {main_update_stats(credited, ups)} :
            \E mem1 \in {MainPut(Mem, sid, gs1, ups)} :
            \E upd \in {main_sync_update(mem1, disk, sid, gs1, now)} :
                /\ Commit(upd.mem, save_data(upd.mem))
                /\ resp' = [BaseResp EXCEPT
                               !.op = "sync", !.sid = sid, !.ok = TRUE,
                               !.gameState = gs1, !.upgrades = ups,
                               !.leaderboard = upd.result,
                               !.pendingClicks = pending,
                               !.actualClicks = actual, !.elapsed = elapsed,
                               !.timeEarnings = time_earnings]

main_buy_outcome(gs, ups, uid) ==
    LET cost == main_calculate_upgrade_cost(uid, ups[uid])
    IN  IF FxLess(gs.bananas, FxInt(cost))
        THEN [kind |-> "fail", err |-> "InsufficientFunds", gs |-> gs,
              ups |-> ups, cost |-> cost]
        ELSE [kind |-> "ok", err |-> "",
              gs |-> [gs EXCEPT !.bananas = FxSub(@, FxInt(cost))],
              ups |-> [ups EXCEPT ![uid] = @ + 1], cost |-> cost]

main_buy_upgrade(sid, uid) ==
    /\ app = "main"
    /\ UNCHANGED <<app, now, ticks, clients, active_events>>
    /\ IF sid \notin DOMAIN game_sessions
       THEN /\ resp' = [Fail("upgrade", sid, "InvalidSession") EXCEPT
                           !.gameState = main_create_initial_state(sid, now),
                           !.leaderboard = main_get_leaderboard(Mem),
                           !.upgradeId = uid]
            /\ Unchanged
       ELSE IF uid \notin DOMAIN upgrades_data[sid]
       THEN /\ resp' = [Fail("upgrade", sid, "UnknownUpgrade") EXCEPT
                           !.gameState = game_sessions[sid],
                           !.upgrades = upgrades_data[sid],
                           !.leaderboard = main_get_leaderboard(Mem),
                           !.upgradeId = uid]
            /\ Unchanged
       ELSE \E out \in {main_buy_outcome(game_sessions[sid],
                                          upgrades_data[sid], uid)} :
            IF out.kind = "ok"
            THEN \E gs1 \in {main_update_stats(out.gs, out.ups)} :
                 \E mem1 \in {MainPut(Mem, sid, gs1, out.ups)} :
                 \E upd \in {main_buy_update(mem1, disk, sid, gs1, now)} :
                     /\ Commit(upd.mem, save_data(upd.mem))
                     /\ resp' = [BaseResp EXCEPT
                                    !.op = "upgrade", !.sid = sid, !.ok = TRUE,
                                    !.gameState = gs1, !.upgrades = out.ups,
                                    !.leaderboard = upd.result,
                                    !.upgradeId = uid, !.cost = out.cost]
            ELSE /\ resp' = [Fail("upgrade", sid, out.err) EXCEPT
                                !.gameState = game_sessions[sid],
                                !.upgrades = upgrades_data[sid],
                                !.leaderboard = main_get_leaderboard(Mem),
                                !.upgradeId = uid, !.cost = out.cost]
                 /\ Unchanged

\* min(int(bananas), calculate_maximum_possible_bananas(...))
main_final_score(gs, ups, t) ==
    IF FxTrunc(gs.bananas) > main_calculate_maximum_possible_bananas(gs, ups, t)
    THEN main_calculate_maximum_possible_bananas(gs, ups, t)
    ELSE FxTrunc(gs.bananas)

main_submit_score(sid, name) ==
    /\ app = "main"
    /\ UNCHANGED <<app, now, ticks, clients, active_events>>
    /\ IF strip(name) = <<>>
       THEN /\ resp' = [Fail("submit", sid, "EmptyName") EXCEPT
                           !.leaderboard = main_get_leaderboard(Mem)]
            /\ Unchanged
       ELSE IF sid \notin DOMAIN game_sessions
       THEN /\ resp' = [Fail("submit", sid, "InvalidSession") EXCEPT
                           !.leaderboard = main_get_leaderboard(Mem)]
            /\ Unchanged
       ELSE \E loaded \in {load_data(Mem, disk)} :
            IF sid \notin DOMAIN loaded.game_sessions
            THEN \* game_sessions[request.sessionId] raises KeyError
                 /\ Commit(loaded, disk)
                 /\ resp' = [Fail("submit", sid, "KeyError") EXCEPT
                                !.raised = TRUE]
            ELSE \E gs \in {loaded.game_sessions[sid]},
                    ups \in {loaded.upgrades_data[sid]},
                    trimmed_name \in {strip(name)} :
                 \E final_score \in {main_final_score(gs, ups, now)},
                    gs1 \in {[gs EXCEPT !.playerName = trimmed_name]} :
                 \E mem1 \in {MainPut(loaded, sid, gs1, ups)} :
                 \E upd \in {main_update_leaderboard(mem1, disk, sid,
                                  trimmed_name, final_score, now)} :
                     /\ Commit(upd.mem, upd.disk)
                     /\ resp' = [BaseResp EXCEPT
                                    !.op = "submit", !.sid = sid, !.ok = TRUE,
                                    !.gameState = gs1, !.upgrades = ups,
                                    !.leaderboard = upd.result,
                                    !.cost = final_score,
                                    !.bound =
                                        main_calculate_maximum_possible_bananas(
                                            gs, ups, now)]

main_reset_game(sid) ==
    /\ app = "main"
    /\ UNCHANGED <<app, now, ticks, clients, active_events>>
    /\ IF sid \notin DOMAIN game_sessions
       THEN /\ resp' = Fail("reset", sid, "InvalidSession")
            /\ Unchanged
       ELSE \E mem1 \in {MainPut(Mem, sid, main_create_initial_state(sid, now),
                                  main_create_default_upgrades)} :
                /\ Commit(mem1, save_data(mem1))
                /\ resp' = [BaseResp EXCEPT
                               !.op = "reset", !.sid = sid, !.ok = TRUE,
                               !.gameState = main_create_initial_state(sid, now),
                               !.upgrades = main_create_default_upgrades]

main_get_leaderboard_endpoint ==
    /\ app = "main"
    /\ UNCHANGED <<app, now, ticks, clients, active_events>>
    /\ Unchanged
    /\ resp' = [BaseResp EXCEPT !.op = "leaderboard", !.ok = TRUE,
                                !.leaderboard = main_get_leaderboard(Mem)]

(***************************************************************************)
(* Initial states.  The process has served requests before: the store and  *)
(* the save file agree, and hold one of the snapshots below.               *)
(***************************************************************************)
\* a session played before the process started, as load_data restores it
VeteranId == [ts |-> 0, tok |-> "a"]

VeteranUpgrades ==
    [create_default_upgrades EXCEPT !["click_1"] = 1, !["auto_1"] = 1]

VeteranAchievements ==
    [a \in AchIds |->
        IF a \in {"ach_clicks_1", "ach_clicks_2", "ach_bananas_3",
                  "ach_bananas_4"}
        THEN [unlocked |-> TRUE, unlockedAt |-> 0] ELSE Locked]

VeteranState ==
    LET gs == [create_initial_state(VeteranId, 0) EXCEPT
                  !.bananas = FxInt(PRESTIGE_MIN - 1),
                  !.totalBananasEarned = FxInt(PRESTIGE_MIN - 1),
                  !.totalClicks = 2000]
    IN  [gs EXCEPT
           !.bananasPerClick =
               calculate_bananas_per_click(VeteranUpgrades, gs,
                                           VeteranAchievements),
           !.bananasPerSecond =
               calculate_bananas_per_second(VeteranUpgrades, gs,
                                            VeteranAchievements)]

VeteranFile ==
    save_data([game_sessions |-> (VeteranId :> VeteranState),
               upgrades_data |-> (VeteranId :> VeteranUpgrades),
               leaderboard_data |-> <<>>,
               achievements_data |-> (VeteranId :> VeteranAchievements)])

\* a session with one Banana Tree, 100 clicks in, whose cached yields were
\* computed before the achievements of the 100th click unlocked
CenturionId == [ts |-> 0, tok |-> "b"]

CenturionUpgrades == [create_default_upgrades EXCEPT !["auto_1"] = 1]

CenturionState ==
    update_stats([create_initial_state(CenturionId, 0) EXCEPT
                     !.bananas = FxInt(100),
                     !.totalBananasEarned = FxInt(100),
                     !.totalClicks = 100,
                     !.lastSyncTime = START_TIME],
                 CenturionUpgrades, create_default_achievements)

CenturionAchievements ==
    check_achievements(CenturionState, create_default_achievements, START_TIME)

CenturionFile ==
    save_data([game_sessions |-> (CenturionId :> CenturionState),
               upgrades_data |-> (CenturionId :> CenturionUpgrades),
               leaderboard_data |-> <<>>,
               achievements_data |-> (CenturionId :> CenturionAchievements)])

\* the veteran one banana later, saved right after its first prestige
AscendedId == [ts |-> 0, tok |-> "c"]

AscendedAchievements ==
    [VeteranAchievements EXCEPT
        !["ach_prestige_1"] = [unlocked |-> TRUE, unlockedAt |-> 0]]

AscendedUpgrades == create_default_upgrades

AscendedState ==
    update_stats([create_initial_state(AscendedId, 0) EXCEPT
                     !.bananaDNA = PRESTIGE_MIN \div DNA_DIVISOR,
                     !.prestigeCount = 1],
                 AscendedUpgrades, AscendedAchievements)

AscendedFile ==
    save_data([game_sessions |-> (AscendedId :> AscendedState),
               upgrades_data |-> (AscendedId :> AscendedUpgrades),
               leaderboard_data |-> <<>>,
               achievements_data |-> (AscendedId :> AscendedAchievements)])

\* a new session whose score submission wrote the first save file
NamedId == [ts |-> 0, tok |-> "d"]

NamedState == [create_initial_state(NamedId, 0) EXCEPT !.playerName = Ann]

NamedFile ==
    save_data([game_sessions |-> (NamedId :> NamedState),
               upgrades_data |-> (NamedId :> create_default_upgrades),
               leaderboard_data |->
                   <<[name |-> Ann, score |-> 0, date |-> 0,
                      sessionId |-> NamedId, prestigeCount |-> 0]>>,
               achievements_data |-> (NamedId :> create_default_achievements)])

\* a session named before the first save file existed, which has since
\* collected golden bananas only: the last one brought its lifetime total to
\* exactly the prestige minimum, after a sync had put 990,099,010 on the
\* board; it then bought the pixel skin
MagnateId == [ts |-> 0, tok |-> "g"]

MagnateState ==
    skin_state([create_initial_state(MagnateId, 0) EXCEPT
                   !.playerName = Ann,
                   !.bananas = FxInt(PRESTIGE_MIN),
                   !.totalBananasEarned = FxInt(PRESTIGE_MIN)],
               "pixel")

MagnateFile ==
    save_data([game_sessions |-> (MagnateId :> MagnateState),
               upgrades_data |-> (MagnateId :> create_default_upgrades),
               leaderboard_data |->
                   <<[name |-> Ann, score |-> 990099010, date |-> 0,
                      sessionId |-> MagnateId, prestigeCount |-> 0]>>,
               achievements_data |->
                   (MagnateId :> create_default_achievements)])

\* src/main.py: a session saved by a sync that credited 20 clicks
main_SavedId == [ts |-> 0, tok |-> "e"]

main_SavedState ==
    [main_create_initial_state(main_SavedId, 0) EXCEPT
        !.bananas = FxInt(20), !.totalClicks = 20]

main_SavedFile ==
    save_data([game_sessions |-> (main_SavedId :> main_SavedState),
               upgrades_data |-> (main_SavedId :> main_create_default_upgrades),
               leaderboard_data |-> <<>>,
               achievements_data |-> <<>>])

\* src/main.py: a new session whose score submission wrote the first file
main_NamedId == [ts |-> 0, tok |-> "f"]

main_NamedState ==
    [main_create_initial_state(main_NamedId, 0) EXCEPT !.playerName = Ann]

main_NamedFile ==
    save_data([game_sessions |-> (main_NamedId :> main_NamedState),
               upgrades_data |-> (main_NamedId :> main_create_default_upgrades),
               leaderboard_data |->
                   <<[name |-> Ann, score |-> 0, date |-> 0,
                      sessionId |-> main_NamedId]>>,
               achievements_data |-> <<>>])

\* a full board: ten sessions that each clicked 2, 4, ... 20 times in their
\* first second, synced and submitted a score, and an eleventh session with
\* 11 bananas that has not submitted; the names set by the submissions were
\* not kept by the store
ArcadeToks == <<"p1", "p2", "p3", "p4", "p5", "p6", "p7", "p8", "p9", "p10">>

ArcadeId(i) == [ts |-> 0, tok |-> ArcadeToks[i]]

ArcadeIds == {ArcadeId(i) : i \in 1..Len(ArcadeToks)}

ChallengerId == [ts |-> 0, tok |-> "p0"]

ArcadeScore(sid) ==
    IF sid = ChallengerId THEN 11
    ELSE 2 * (CHOOSE i \in 1..Len(ArcadeToks) : ArcadeId(i) = sid)

ArcadeState(sid) ==
    [create_initial_state(sid, 0) EXCEPT
        !.bananas = FxInt(ArcadeScore(sid)),
        !.totalBananasEarned = FxInt(ArcadeScore(sid)),
        !.totalClicks = ArcadeScore(sid),
        !.lastSyncTime = START_TIME]

ArcadeBoard ==
    [i \in 1..Len(ArcadeToks) |->
        [name |-> Ann, score |-> 2 * (Len(ArcadeToks) + 1 - i),
         date |-> START_TIME,
         sessionId |-> ArcadeId(Len(ArcadeToks) + 1 - i),
         prestigeCount |-> 0]]

ArcadeFile ==
    save_data([game_sessions |->
                   [sid \in ArcadeIds \cup {ChallengerId} |->
                       ArcadeState(sid)],
               upgrades_data |->
                   [sid \in ArcadeIds \cup {ChallengerId} |->
                       create_default_upgrades],
               leaderboard_data |-> ArcadeBoard,
               achievements_data |->
                   [sid \in ArcadeIds \cup {ChallengerId} |->
                       create_default_achievements]])

\* src/main.py: a session that clicked 60 times in its first second and
\* bought a Banana Tree for 50
main_FarmerId == [ts |-> 0, tok |-> "h"]

main_FarmerUpgrades == [main_create_default_upgrades EXCEPT !["auto_1"] = 1]

main_FarmerState ==
    main_update_stats(
        [main_create_initial_state(main_FarmerId, 0) EXCEPT
            !.bananas = FxInt(60 - main_calculate_upgrade_cost("auto_1", 0)),
            !.totalClicks = 60,
            !.lastSyncTime = START_TIME],
        main_FarmerUpgrades)

main_FarmerFile ==
    save_data([game_sessions |-> (main_FarmerId :> main_FarmerState),
               upgrades_data |-> (main_FarmerId :> main_FarmerUpgrades),
               leaderboard_data |-> <<>>,
               achievements_data |-> <<>>])

\* src/main.py: the same full board
main_ArcadeState(sid) ==
    [main_create_initial_state(sid, 0) EXCEPT
        !.bananas = FxInt(ArcadeScore(sid)),
        !.totalClicks = ArcadeScore(sid),
        !.lastSyncTime = START_TIME]

main_ArcadeBoard ==
    [i \in 1..Len(ArcadeToks) |->
        [name |-> Ann, score |-> 2 * (Len(ArcadeToks) + 1 - i),
         date |-> START_TIME,
         sessionId |-> ArcadeId(Len(ArcadeToks) + 1 - i)]]

main_ArcadeFile ==
    save_data([game_sessions |->
                   [sid \in ArcadeIds \cup {ChallengerId} |->
                       main_ArcadeState(sid)],
               upgrades_data |->
                   [sid \in ArcadeIds \cup {ChallengerId} |->
                       main_create_default_upgrades],
               leaderboard_data |-> main_ArcadeBoard,
               achievements_data |-> <<>>])

\* the sessions whose players send requests: every stored session, or, of
\* the full board, the session without an entry
StartClients(d) ==
    IF d \in {ArcadeFile, main_ArcadeFile}
    THEN {ChallengerId}
    ELSE DOMAIN d.mem.game_sessions

\* the save files the process may find when it starts
StartFiles(a) ==
    IF a = "main"
    THEN {NoFile, main_SavedFile, main_NamedFile, main_FarmerFile,
          main_ArcadeFile}
    ELSE {NoFile, VeteranFile, CenturionFile, AscendedFile, NamedFile,
          MagnateFile, ArcadeFile}

Init ==
    /\ app \in {"main", "enhanced"}
    /\ now = START_TIME
    /\ ticks = 0
    /\ waited = FALSE
    /\ steps = 0
    /\ disk \in StartFiles(app)
    /\ game_sessions = load_data(EmptyMem, disk).game_sessions
    /\ upgrades_data = load_data(EmptyMem, disk).upgrades_data
    /\ leaderboard_data = load_data(EmptyMem, disk).leaderboard_data
    /\ achievements_data = load_data(EmptyMem, disk).achievements_data
    /\ clients = StartClients(disk)
    /\ active_events = <<>>
    /\ resp = BaseResp
    /\ prior = NoPrior

(***************************************************************************)
(* The system.                                                             *)
(***************************************************************************)
Requesters == clients \cup {BogusId}

\* who calls the handlers that need a session: a request for an unknown
\* session changes nothing, so it is explored as the last request only
Callers == IF steps + 1 = MaxSteps THEN Requesters ELSE clients

EventIds == DOMAIN active_events \cup {EventId(BogusId, 0)}

\* one more request is served
Served(sid) ==
    /\ steps < MaxSteps
    /\ steps' = steps + 1
    /\ waited' = FALSE
    /\ prior' = Stored(sid)

Next ==
    \/ \E d \in Deltas : Tick(d)
    \/ \E s \in Requesters, tok \in Tokens : Served(s) /\ init_game(s, tok)
    \/ \E s \in Callers, k \in PendingClicks, e \in SpawnChoices :
           Served(s) /\ sync_game(s, k, e)
    \/ \E s \in Callers, u \in BuyIds : Served(s) /\ buy_upgrade(s, u)
    \/ \E s \in Callers : Served(s) /\ prestige_game(s)
    \/ \E s \in Callers, k \in SkinIds : Served(s) /\ buy_skin(s, k)
    \/ \E s \in Callers, e \in EventIds : Served(s) /\ click_event(s, e)
    \/ \E s \in Callers, n \in NameInputs : Served(s) /\ submit_score(s, n)
    \/ \E s \in Callers : Served(s) /\ reset_game(s)
    \/ \E s \in Requesters, tok \in Tokens : Served(s) /\ main_init_game(s, tok)
    \/ \E s \in Callers, k \in PendingClicks :
           Served(s) /\ main_sync_game(s, k)
    \/ \E s \in Callers, u \in BuyIds : Served(s) /\ main_buy_upgrade(s, u)
    \/ \E s \in Callers, n \in NameInputs :
           Served(s) /\ main_submit_score(s, n)
    \/ \E s \in Callers : Served(s) /\ main_reset_game(s)
    \/ Served(BogusId) /\ get_leaderboard_endpoint
    \/ Served(BogusId) /\ main_get_leaderboard_endpoint

Spec == Init /\ [][Next]_vars

(***************************************************************************)
(* Properties.  resp and prior describe the last request served: the       *)
(* response with the handler's own view of the session, and what the store *)
(* held for the session when the request arrived.                          *)
(***************************************************************************)

\* C1: in the enhanced game every stored session has lifetime currency at
\* least its current currency, whatever requests were served.
C1_LifetimeCoversCurrent ==
    app = "enhanced" =>
        \A s \in DOMAIN game_sessions :
            FxLeq(game_sessions[s].bananas, game_sessions[s].totalBananasEarned)

\* a session that earned and then spent on a skin: current is strictly below
\* lifetime
C1_Witness ==
    /\ app = "enhanced"
    /\ resp.op = "skin" /\ resp.ok /\ resp.cost > 0
    /\ resp.sid \in DOMAIN game_sessions
    /\ FxLess(FxInt(0), game_sessions[resp.sid].totalBananasEarned)
    /\ FxLess(game_sessions[resp.sid].bananas,
              game_sessions[resp.sid].totalBananasEarned)

\* C2: after every successful Sync, Purchase or SubmitScore the store holds,
\* for the session, the state the request's transition produced from the
\* state held before: no earned currency, click count, last-sync time, owned
\* count or player name is lost.
C2_NoLostUpdate ==
    (resp.ok /\ resp.op \in {"sync", "upgrade", "submit"}) =>
        /\ resp.sid \in DOMAIN game_sessions
        /\ game_sessions[resp.sid] = resp.gameState
        /\ upgrades_data[resp.sid] = resp.upgrades

\* C3: a Sync with k pending clicks within the rate limit adds k times the
\* cached per-click yield plus the time earnings to the stored currency (and
\* lifetime currency in the enhanced game), adds k to totalClicks and sets
\* lastSyncTime to the time of the request; a new session synced with 5
\* clicks after one second ends with currency 5 and 5 clicks.
C3_SyncCredits ==
    (/\ resp.op = "sync" /\ resp.ok
     /\ resp.pendingClicks >= 0
     /\ (resp.pendingClicks = 0 \/ (resp.pendingClicks - 1) * 1000
                                      < resp.elapsed * MAX_CLICK_RATE)) =>
        /\ resp.sid \in DOMAIN game_sessions
        /\ LET old == prior.gameState
               new == game_sessions[resp.sid]
               earned == FxAdd(resp.timeEarnings,
                               FxInt(resp.pendingClicks * old.bananasPerClick))
           IN  /\ new.bananas = FxAdd(old.bananas, earned)
               /\ app = "enhanced" =>
                      new.totalBananasEarned =
                          FxAdd(old.totalBananasEarned, earned)
               /\ new.totalClicks = old.totalClicks + resp.pendingClicks
               /\ new.lastSyncTime = old.lastSyncTime + resp.elapsed
               /\ (/\ old.bananas = FxInt(0) /\ old.totalClicks = 0
                   /\ old.bananasPerClick = 1 /\ old.bananasPerSecond = 0
                   /\ resp.pendingClicks = 5 /\ resp.elapsed = 1000) =>
                      new.bananas = FxInt(5) /\ new.totalClicks = 5

\* C4: every Sync on an existing session succeeds and credits at most
\* ceil(elapsed seconds * 20) clicks, the elapsed time being measured from
\* the session's lastSyncTime; a larger pendingClicks is clamped to exactly
\* that bound, and the credited number is what is added to totalClicks and
\* multiplied by the per-click yield.
C4_ClickClamp ==
    (resp.op = "sync" /\ prior.gameState # NoState) =>
        LET old == prior.gameState
            hs == resp.gameState
            k == resp.actualClicks
            within == k <= 0 \/ (k - 1) * 1000 < resp.elapsed * MAX_CLICK_RATE
            atBound == k * 1000 >= resp.elapsed * MAX_CLICK_RATE
        IN  /\ resp.ok
            /\ resp.elapsed = hs.lastSyncTime - old.lastSyncTime
            /\ k <= resp.pendingClicks
            /\ within
            /\ k < resp.pendingClicks => atBound
            /\ hs.totalClicks = old.totalClicks + k
            /\ hs.bananas =
                   FxAdd(old.bananas,
                         FxAdd(resp.timeEarnings,
                               FxInt(k * old.bananasPerClick)))
            /\ resp.sid \in DOMAIN game_sessions =>
                   game_sessions[resp.sid].totalClicks \in
                       {old.totalClicks, old.totalClicks + k}

\* 10000 pending clicks one second after the last sync: 20 are credited
C4_Witness ==
    /\ resp.op = "sync" /\ resp.ok
    /\ resp.pendingClicks = 10000 /\ resp.elapsed = 1000
    /\ resp.actualClicks = 20
    /\ resp.gameState.totalClicks = prior.gameState.totalClicks + 20

\* C5: the time earnings of every successful Sync are the cached per-second
\* yield times min(elapsed seconds, 28800), doubled at most by a rain event,
\* in both programs.
C5_OfflineCap ==
    (resp.op = "sync" /\ resp.ok) =>
        LET capped == IF resp.elapsed < MAX_OFFLINE_SECONDS * 1000
                      THEN resp.elapsed ELSE MAX_OFFLINE_SECONDS * 1000
            base == FxRate(prior.gameState.bananasPerSecond, capped)
        IN  \/ resp.timeEarnings = base
            \/ /\ app = "enhanced"
               /\ resp.timeEarnings =
                      FxScale(base, EventKinds["rain"].multiplier)

\* C6: two successive Syncs of one session, each with no pending clicks and
\* no time elapsed since lastSyncTime, leave the stored currency, lifetime
\* currency, totalClicks, owned counts and both cached yields as they were
\* before the first of the two.
C6_ZeroSyncTwice ==
    [][(/\ steps' # steps
        /\ resp.op = "sync" /\ resp.ok
        /\ resp.pendingClicks = 0 /\ resp.elapsed = 0
        /\ resp'.op = "sync" /\ resp'.ok
        /\ resp'.pendingClicks = 0 /\ resp'.elapsed = 0
        /\ resp'.sid = resp.sid) =>
           /\ resp.sid \in DOMAIN game_sessions'
           /\ LET old == prior.gameState
                  new == game_sessions'[resp.sid]
              IN  /\ new.bananas = old.bananas
                  /\ app = "enhanced" =>
                         new.totalBananasEarned = old.totalBananasEarned
                  /\ new.totalClicks = old.totalClicks
                  /\ new.bananasPerClick = old.bananasPerClick
                  /\ new.bananasPerSecond = old.bananasPerSecond
                  /\ upgrades_data'[resp.sid] = prior.upgrades]_vars

\* C7: a successful Purchase leaves the store with the paying balance
\* (bananaDNA for a prestige upgrade, bananas otherwise) lower by exactly the
\* cost at the owned count held before, that upgrade's owned count higher by
\* one, every other owned count unchanged and both yields recomputed, in
\* both programs.
C7_PurchaseEffect ==
    (resp.op = "upgrade" /\ resp.ok) =>
        /\ resp.sid \in DOMAIN game_sessions
        /\ LET old == prior.gameState
               owned == prior.upgrades
               uid == resp.upgradeId
               new == game_sessions[resp.sid]
               ups == upgrades_data[resp.sid]
           IN  /\ ups[uid] = owned[uid] + 1
               /\ \A u \in DOMAIN owned \ {uid} : ups[u] = owned[u]
               /\ IF app = "main"
                  THEN /\ new.bananas =
                             FxSub(old.bananas,
                                   FxInt(main_calculate_upgrade_cost(
                                             uid, owned[uid])))
                       /\ new.bananasPerClick =
                             main_calculate_bananas_per_click(ups)
                       /\ new.bananasPerSecond =
                             main_calculate_bananas_per_second(ups)
                  ELSE /\ IF DEFAULT_UPGRADES[uid].type = "prestige"
                          THEN /\ new.bananaDNA =
                                     old.bananaDNA
                                     - calculate_upgrade_cost(uid, owned[uid])
                               /\ new.bananas = old.bananas
                          ELSE /\ new.bananas =
                                     FxSub(old.bananas,
                                           FxInt(calculate_upgrade_cost(
                                                     uid, owned[uid])))
                               /\ new.bananaDNA = old.bananaDNA
                       /\ new.bananasPerClick =
                             calculate_bananas_per_click(
                                 ups, new, achievements_data[resp.sid])
                       /\ new.bananasPerSecond =
                             calculate_bananas_per_second(
                                 ups, new, achievements_data[resp.sid])

\* C8: a Purchase of a known upgrade that is not locked and costs more than
\* the paying balance answers with a failure result InsufficientFunds, not
\* with an exception, and leaves the stored session and its owned counts
\* unchanged, in both programs.
C8_InsufficientFunds ==
    (/\ resp.op = "upgrade"
     /\ prior.gameState # NoState
     /\ resp.upgradeId \in DOMAIN prior.upgrades
     /\ IF app = "main"
        THEN FxLess(prior.gameState.bananas,
                    FxInt(main_calculate_upgrade_cost(
                              resp.upgradeId,
                              prior.upgrades[resp.upgradeId])))
        ELSE /\ DEFAULT_UPGRADES[resp.upgradeId].unlock
                    <= prior.gameState.prestigeCount
             /\ IF DEFAULT_UPGRADES[resp.upgradeId].type = "prestige"
                THEN prior.gameState.bananaDNA
                         < calculate_upgrade_cost(
                               resp.upgradeId, prior.upgrades[resp.upgradeId])
                ELSE FxLess(prior.gameState.bananas,
                            FxInt(calculate_upgrade_cost(
                                      resp.upgradeId,
                                      prior.upgrades[resp.upgradeId])))) =>
        /\ ~resp.ok /\ ~resp.raised
        /\ resp.err = "InsufficientFunds"
        /\ Stored(resp.sid) = prior

\* C9: a Purchase of an upgrade with an unlock requirement answers with a
\* failure result LockedUpgrade and leaves the stored session unchanged when
\* the session's prestigeCount is below the requirement, and otherwise goes on
\* to the cost check (success or InsufficientFunds); neither path raises by
\* debiting a cost that was not computed.
C9_LockedUpgrade ==
    (/\ app = "enhanced" /\ resp.op = "upgrade"
     /\ prior.gameState # NoState
     /\ resp.upgradeId \in DOMAIN prior.upgrades
     /\ DEFAULT_UPGRADES[resp.upgradeId].unlock > 0) =>
        /\ ~resp.raised
        /\ IF prior.gameState.prestigeCount
                  < DEFAULT_UPGRADES[resp.upgradeId].unlock
           THEN /\ ~resp.ok /\ resp.err = "LockedUpgrade"
                /\ Stored(resp.sid) = prior
           ELSE resp.ok \/ resp.err = "InsufficientFunds"

\* C10: Prestige on a session whose lifetime currency is below 1,000,000,000
\* fails with ThresholdNotMet and leaves the session's state, upgrades and
\* achievements unchanged; at 1,000,000,000 or more it succeeds.
C10_PrestigeThreshold ==
    (resp.op = "prestige" /\ prior.gameState # NoState) =>
        IF prior.gameState.totalBananasEarned.w < PRESTIGE_MIN
        THEN /\ ~resp.ok /\ ~resp.raised
             /\ resp.err = "ThresholdNotMet"
             /\ Stored(resp.sid) = prior
        ELSE resp.ok

\* a Prestige refused at lifetime currency 999,999,999
C10_Witness ==
    /\ resp.op = "prestige" /\ ~resp.ok
    /\ resp.err = "ThresholdNotMet"
    /\ prior.gameState.totalBananasEarned = FxInt(PRESTIGE_MIN - 1)

\* C11: a successful Prestige adds floor(lifetime / 100,000,000) to the
\* session's banana DNA (10 when the lifetime total is 1,000,000,000), sets
\* the current currency and totalClicks to 0, adds 1 to prestigeCount, and
\* leaves the cached yields equal to the yields computed from the upgrades
\* and achievements stored after the reset.
C11_PrestigeAward ==
    (app = "enhanced" /\ resp.op = "prestige" /\ resp.ok) =>
        /\ resp.sid \in DOMAIN game_sessions
        /\ LET old == prior.gameState
               new == game_sessions[resp.sid]
               ups == upgrades_data[resp.sid]
               achs == achievements_data[resp.sid]
               gained == new.bananaDNA - old.bananaDNA
           IN  /\ gained >= 0
               /\ gained * DNA_DIVISOR <= old.totalBananasEarned.w
               /\ old.totalBananasEarned.w - gained * DNA_DIVISOR < DNA_DIVISOR
               /\ resp.reward = gained
               /\ (old.totalBananasEarned = FxInt(PRESTIGE_MIN) => gained = 10)
               /\ new.bananas = FxInt(0)
               /\ new.totalClicks = 0
               /\ new.prestigeCount = old.prestigeCount + 1
               /\ new.bananasPerClick =
                      calculate_bananas_per_click(ups, new, achs)
               /\ new.bananasPerSecond =
                      calculate_bananas_per_second(ups, new, achs)

\* a Prestige at a lifetime total of exactly 1,000,000,000 that awarded 10
C11_Witness ==
    /\ app = "enhanced" /\ resp.op = "prestige" /\ resp.ok
    /\ prior.gameState.totalBananasEarned = FxInt(PRESTIGE_MIN)
    /\ prior.gameState.prestigeCount = 0
    /\ resp.reward = 10
    /\ game_sessions[resp.sid].bananaDNA = 10
    /\ game_sessions[resp.sid].prestigeCount = 1

\* C12: a successful Prestige keeps the owned count of every upgrade of type
\* prestige, sets the owned count of every other upgrade to 0, and keeps the
\* player name, the owned and selected skins and every achievement that was
\* unlocked.
C12_PrestigeFrame ==
    (app = "enhanced" /\ resp.op = "prestige" /\ resp.ok) =>
        /\ resp.sid \in DOMAIN game_sessions
        /\ LET old == prior.gameState
               new == game_sessions[resp.sid]
           IN  /\ \A u \in UpgradeIds :
                      upgrades_data[resp.sid][u] =
                          IF DEFAULT_UPGRADES[u].type = "prestige"
                          THEN prior.upgrades[u] ELSE 0
               /\ new.playerName = old.playerName
               /\ new.ownedSkins = old.ownedSkins
               /\ new.selectedSkin = old.selectedSkin
               /\ \A a \in AchIds :
                      prior.achievements[a].unlocked =>
                          achievements_data[resp.sid][a] = prior.achievements[a]

\* a Prestige of a session that owned non-prestige upgrades and had unlocked
\* achievements
C12_Witness ==
    /\ app = "enhanced" /\ resp.op = "prestige" /\ resp.ok
    /\ \E u \in UpgradeIds :
           /\ DEFAULT_UPGRADES[u].type # "prestige"
           /\ prior.upgrades[u] > 0
           /\ upgrades_data[resp.sid][u] = 0
    /\ \E a \in AchIds :
           /\ prior.achievements[a].unlocked
           /\ achievements_data[resp.sid][a].unlocked

\* C13: in the enhanced game no Sync, Purchase, event click or Prestige
\* leaves a session with a lifetime total below the one it had when the
\* request arrived.
C13_LifetimeNeverDecreases ==
    (/\ app = "enhanced"
     /\ resp.op \in {"sync", "upgrade", "click", "prestige"}
     /\ prior.gameState # NoState
     /\ resp.sid \in DOMAIN game_sessions) =>
        FxLeq(prior.gameState.totalBananasEarned,
              game_sessions[resp.sid].totalBananasEarned)

\* C14: Reset of an existing session stores, under the same session id, a
\* fresh session: currency, lifetime currency, totalClicks, banana DNA and
\* prestige count are 0, every upgrade has owned count 0 and every
\* achievement is locked; this holds in both programs for the fields each
\* has.
C14_ResetToDefaults ==
    (resp.op = "reset" /\ prior.gameState # NoState) =>
        /\ resp.ok
        /\ resp.sid \in DOMAIN game_sessions
        /\ LET new == game_sessions[resp.sid]
           IN  /\ new.sessionId = resp.sid
               /\ new.bananas = FxInt(0)
               /\ new.totalClicks = 0
               /\ new.bananasPerClick = 1
               /\ new.bananasPerSecond = 0
               /\ \A u \in DOMAIN upgrades_data[resp.sid] :
                      upgrades_data[resp.sid][u] = 0
               /\ DOMAIN upgrades_data[resp.sid] =
                      (IF app = "main" THEN main_UpgradeIds ELSE UpgradeIds)
               /\ app = "enhanced" =>
                      /\ new.totalBananasEarned = FxInt(0)
                      /\ new.bananaDNA = 0
                      /\ new.prestigeCount = 0
                      /\ \A a \in AchIds :
                             ~achievements_data[resp.sid][a].unlocked

\* a Reset of a session that had prestiged: banana DNA, prestige count and an
\* unlocked achievement are gone
C14_Witness ==
    /\ app = "enhanced" /\ resp.op = "reset" /\ resp.ok
    /\ prior.gameState.bananaDNA > 0
    /\ prior.gameState.prestigeCount > 0
    /\ \E a \in AchIds : prior.achievements[a].unlocked
    /\ game_sessions[resp.sid].bananaDNA = 0
    /\ game_sessions[resp.sid].prestigeCount = 0

\* C15: for every upgrade of the running program's catalog and every owned
\* count n up to MaxOwned, the purchase cost is floor(baseCost * 1.15^n), the
\* cost at n+1 is strictly above the cost at n unless the upgrade is of type
\* prestige, and the cost of a prestige upgrade is its baseCost at every n.
C15_CostCurve ==
    \A n \in 0..MaxOwned :
        IF app = "main"
        THEN \A u \in main_UpgradeIds :
                /\ main_calculate_upgrade_cost(u, n) =
                       Grow(main_DEFAULT_UPGRADES[u].baseCost, n).w
                /\ main_calculate_upgrade_cost(u, n + 1) >
                       main_calculate_upgrade_cost(u, n)
        ELSE \A u \in UpgradeIds :
                IF DEFAULT_UPGRADES[u].type = "prestige"
                THEN calculate_upgrade_cost(u, n) = DEFAULT_UPGRADES[u].baseCost
                ELSE /\ calculate_upgrade_cost(u, n) =
                            Grow(DEFAULT_UPGRADES[u].baseCost, n).w
                     /\ calculate_upgrade_cost(u, n + 1) >
                            calculate_upgrade_cost(u, n)

\* the score a response's handler passed to update_leaderboard
OfferedScore(r) ==
    IF app = "main" /\ r.op = "submit" THEN r.cost
    ELSE FxTrunc(r.gameState.bananas)

\* the handler of a response called update_leaderboard
Offered(r) ==
    /\ r.ok
    /\ r.op \in {"sync", "upgrade", "submit"}
    /\ r.op # "submit" => Named(r.gameState)
    /\ (app = "main" /\ r.op = "sync") => OfferedScore(r) > 0

\* C16: when a request updates the leaderboard for a session that has an
\* entry, a score not above the stored one leaves the entry's score, name
\* and date as they were, and a score above it becomes the stored score with
\* the date of the request; and in every step, whatever the request, the
\* score of a session that keeps an entry does not go down.
C16_LeaderboardMonotone ==
    [][/\ \A i \in DOMAIN leaderboard_data :
              \A j \in EntryOf(leaderboard_data',
                               leaderboard_data[i].sessionId) :
                  leaderboard_data'[j].score >= leaderboard_data[i].score
       /\ (steps' # steps /\ Offered(resp')) =>
              \A i \in EntryOf(leaderboard_data, resp'.sid) :
                  /\ EntryOf(leaderboard_data', resp'.sid) # {}
                  /\ \A j \in EntryOf(leaderboard_data', resp'.sid) :
                         IF OfferedScore(resp') <= leaderboard_data[i].score
                         THEN /\ leaderboard_data'[j].score =
                                     leaderboard_data[i].score
                              /\ leaderboard_data'[j].name =
                                     leaderboard_data[i].name
                              /\ leaderboard_data'[j].date =
                                     leaderboard_data[i].date
                         ELSE /\ leaderboard_data'[j].score =
                                     OfferedScore(resp')
                              /\ leaderboard_data'[j].date = now']_vars

\* a sync offered a score below the one on the board, which stayed with its
\* earlier date
C16_Witness ==
    /\ resp.op = "sync" /\ Offered(resp)
    /\ \E i \in EntryOf(leaderboard_data, resp.sid) :
           /\ OfferedScore(resp) < leaderboard_data[i].score
           /\ leaderboard_data[i].date < now

\* C17: in every state the leaderboard has at most 10 entries, no two for
\* the same session, in order of non-increasing score; and in every step an
\* entry that leaves the board, or a score offered that does not enter it,
\* is not above any entry the board keeps.
C17_BoardShape ==
    /\ [](/\ Len(leaderboard_data) <= 10
          /\ \A i, j \in DOMAIN leaderboard_data :
                 /\ (i < j => leaderboard_data[i].score
                                  >= leaderboard_data[j].score)
                 /\ (i # j => leaderboard_data[i].sessionId
                                  # leaderboard_data[j].sessionId))
    /\ [][/\ \A i \in DOMAIN leaderboard_data :
                 EntryOf(leaderboard_data',
                         leaderboard_data[i].sessionId) = {} =>
                     \A k \in DOMAIN leaderboard_data' :
                         leaderboard_data[i].score <= leaderboard_data'[k].score
          /\ (/\ steps' # steps /\ Offered(resp')
              /\ EntryOf(leaderboard_data', resp'.sid) = {}) =>
                 \A k \in DOMAIN leaderboard_data' :
                     OfferedScore(resp') <= leaderboard_data'[k].score]_vars

\* a score submitted to a full board took a place, and the session that was
\* last lost its entry
C17_Witness ==
    /\ resp.op = "submit" /\ resp.ok /\ resp.sid = ChallengerId
    /\ Len(leaderboard_data) = 10
    /\ EntryOf(leaderboard_data, ChallengerId) # {}
    /\ ArcadeId(1) \in DOMAIN game_sessions
    /\ EntryOf(leaderboard_data, ArcadeId(1)) = {}

\* C18: no leaderboard returned by a request of either program (init, sync,
\* upgrade, submit-score, leaderboard endpoint) holds a session identifier:
\* every entry returned has no other fields than name, score, date and
\* prestige count.
C18_NoSessionIdReturned ==
    \A i \in DOMAIN resp.leaderboard :
        /\ "sessionId" \notin DOMAIN resp.leaderboard[i]
        /\ DOMAIN resp.leaderboard[i]
               \subseteq {"name", "score", "date", "prestigeCount"}

\* C19: the plausibility bound computed by main.py for a score submission,
\* and the time part of the bound computed by validator.py for a saved
\* session, take the time earnings as the per-second yield times the
\* session's age capped at 8 hours, the age being counted from the creation
\* time in the session id and not from lastSyncTime.
C19_BoundFromCreation ==
    app = "main" =>
        /\ (resp.op = "submit" /\ resp.ok) =>
               LET gs == resp.gameState
                   age == now - resp.sid.ts * 1000
                   capped == IF age < 8 * 60 * 60 * 1000 THEN age
                             ELSE 8 * 60 * 60 * 1000
                   max_from_time == FxRate(gs.bananasPerSecond, capped)
                   rest == gs.totalClicks * gs.bananasPerClick
                               - main_calculate_total_spent_on_upgrades(
                                     resp.upgrades)
                   max_possible == FxTrunc(FxAdd(max_from_time, FxInt(rest)))
               IN  resp.bound = IF max_possible > 0 THEN max_possible ELSE 0
        /\ \A sid \in DOMAIN disk.mem.game_sessions :
               LET gs == disk.mem.game_sessions[sid]
                   age == now - sid.ts * 1000
                   capped == IF age < 8 * 60 * 60 * 1000 THEN age
                             ELSE 8 * 60 * 60 * 1000
               IN  validator_max_from_time(sid, gs, now) =
                       FxRate(gs.bananasPerSecond, capped)

\* C20: a successful SubmitScore of either program passes to the leaderboard
\* the session's currency, or, when the currency is above the plausibility
\* bound max(0, maxFromClicks + maxFromTime - totalSpent), that bound; and it
\* leaves the stored currency, totalClicks and owned counts of the session
\* as they were when the request arrived.
C20_SubmitCap ==
    (resp.op = "submit" /\ resp.ok) =>
        LET gs == resp.gameState
            current == FxTrunc(gs.bananas)
            age == now - resp.sid.ts * 1000
            capped == IF age < 8 * 60 * 60 * 1000 THEN age
                      ELSE 8 * 60 * 60 * 1000
            spent == SumFn([u \in UpgradeIds |->
                               IF DEFAULT_UPGRADES[u].type = "prestige" THEN 0
                               ELSE SpentOn(DEFAULT_UPGRADES[u].baseCost,
                                            resp.upgrades[u])],
                           UpgradeOrder)
            possible == FxTrunc(FxAdd(
                            FxRate(gs.bananasPerSecond, capped),
                            FxInt(gs.totalClicks * gs.bananasPerClick - spent)))
            bound == IF app = "main" THEN resp.bound
                     ELSE IF possible > 0 THEN possible ELSE 0
        IN  /\ OfferedScore(resp) =
                   (IF current > bound THEN bound ELSE current)
            /\ resp.sid \in DOMAIN game_sessions
            /\ game_sessions[resp.sid].bananas = prior.gameState.bananas
            /\ game_sessions[resp.sid].totalClicks =
                   prior.gameState.totalClicks
            /\ upgrades_data[resp.sid] = prior.upgrades

\* the sum over n = 0 .. owned-1 of the exact floor(baseCost * 1.15^n)
RECURSIVE ExactSpentOn(_, _)
ExactSpentOn(base, owned) ==
    IF owned <= 0 THEN 0
    ELSE Grow(base, owned - 1).w + ExactSpentOn(base, owned - 1)

ExactTotalSpent(ups) ==
    SumFn([u \in DOMAIN ups |->
              ExactSpentOn(validator_catalog[u].baseCost, ups[u])],
          validator_order)

\* currentCurrency + totalSpent <= maxFromClicks + maxFromTime * (1 + 0.10)
PlausibleAsStated(mem, sid, t) ==
    LET gs == mem.game_sessions[sid]
        max_from_clicks == gs.totalClicks * gs.bananasPerClick
        max_from_time == validator_max_from_time(sid, gs, t)
        current_with_spending ==
            FxAdd(gs.bananas, FxInt(ExactTotalSpent(mem.upgrades_data[sid])))
    IN  ~ExceedsTenth(FxSub(current_with_spending,
                            FxAdd(FxInt(max_from_clicks), max_from_time)),
                      max_from_time)

\* C21: validate_session, run on the save file, reports a session as passing
\* the plausibility check exactly when currentCurrency + totalSpent <=
\* maxFromClicks + maxFromTime * 1.10, with totalSpent the sum of
\* floor(baseCost * 1.15^n) for n below the owned count; and a cached yield
\* that differs from the recomputed one (per click: not equal, per second:
\* by more than 0.1) makes the report invalid.
C21_ValidatorBound ==
    disk.exists =>
        \A sid \in DOMAIN disk.mem.game_sessions :
            LET r == validate_session(disk.mem, sid, now)
                gs == disk.mem.game_sessions[sid]
                ups == disk.mem.upgrades_data[sid]
                diff == gs.bananasPerSecond
                            - validator_calculate_bananas_per_second(ups)
            IN  /\ ~r.impossible <=> PlausibleAsStated(disk.mem, sid, now)
                /\ r.total_spent = ExactTotalSpent(ups)
                /\ (gs.bananasPerClick #
                        validator_calculate_bananas_per_click(ups))
                       => ~r.is_valid
                /\ (diff > 10 \/ diff < -10) => ~r.is_valid


\* C22: a Sync, Purchase, Prestige, SubmitScore, ClickEvent or Reset request
\* whose session id is not in the session store fails with InvalidSession,
\* adds no session, and leaves the stored sessions, upgrades, achievements,
\* the leaderboard, the event registry and the save file as they were.
C22_UnknownSession ==
    [][(/\ steps' = steps + 1
        /\ resp'.op \in {"sync", "upgrade", "prestige", "submit", "click",
                         "reset"}
        /\ resp'.sid \notin DOMAIN game_sessions)
       => /\ ~resp'.ok
          /\ resp'.err = "InvalidSession"
          /\ UNCHANGED <<game_sessions, upgrades_data, achievements_data,
                         leaderboard_data, active_events, disk>>]_vars


\* C22 as amended: such a request fails and changes nothing; the error is
\* InvalidSession, or EmptyName for a SubmitScore of the main game, which
\* checks the name before the session id.
C22_UnknownSessionFails ==
    [][(/\ steps' = steps + 1
        /\ resp'.op \in {"sync", "upgrade", "prestige", "submit", "click",
                         "reset"}
        /\ resp'.sid \notin DOMAIN game_sessions)
       => /\ ~resp'.ok
          /\ \/ resp'.err = "InvalidSession"
             \/ app = "main" /\ resp'.op = "submit" /\ resp'.err = "EmptyName"
          /\ resp'.sid \notin DOMAIN game_sessions'
          /\ UNCHANGED <<game_sessions, upgrades_data, achievements_data,
                         leaderboard_data, active_events, disk>>]_vars

C22_Witness ==
    /\ resp.op = "reset"
    /\ resp.err = "InvalidSession"
    /\ resp.sid \notin DOMAIN game_sessions
    /\ game_sessions # <<>>
    /\ leaderboard_data # <<>>


\* C23: a request on one session leaves the stored state, owned upgrades and
\* achievements of every other session as they were.
C23_SessionsIndependent ==
    [][steps' = steps + 1 =>
          \A b \in DOMAIN game_sessions \ {resp'.sid} :
              /\ b \in DOMAIN game_sessions'
              /\ game_sessions'[b] = game_sessions[b]
              /\ b \in DOMAIN upgrades_data'
              /\ upgrades_data'[b] = upgrades_data[b]
              /\ b \in DOMAIN achievements_data =>
                     /\ b \in DOMAIN achievements_data'
                     /\ achievements_data'[b] = achievements_data[b]]_vars


\* C24: a session id that is in the session store stays in it under every
\* later request of any session, so that no later request on it fails with
\* InvalidSession.
C24_SessionStays ==
    [][\A sid \in DOMAIN game_sessions : sid \in DOMAIN game_sessions']_vars


\* C25: when init creates a session (the request named no stored session),
\* the identifier it generates is not one already in the session store, and
\* the state, upgrades and achievements of every stored session stay as
\* they were.
C25_FreshIdentifier ==
    [][(/\ steps' = steps + 1
        /\ resp'.op = "init"
        /\ prior' = NoPrior)
       => /\ resp'.sid \notin DOMAIN game_sessions
          /\ \A b \in DOMAIN game_sessions :
                 /\ b \in DOMAIN game_sessions'
                 /\ game_sessions'[b] = game_sessions[b]
                 /\ upgrades_data'[b] = upgrades_data[b]
                 /\ b \in DOMAIN achievements_data =>
                        achievements_data'[b] = achievements_data[b]]_vars


\* C26: under every request other than a Reset of the session, an unlocked
\* achievement of a session stays unlocked with its unlock time, and an
\* achievement that becomes unlocked has its metric (totalClicks, lifetime
\* bananas or prestigeCount) at or above its threshold.
C26_AchievementsKept ==
    [][steps' = steps + 1 =>
          \A sid \in DOMAIN achievements_data :
              (resp'.op = "reset" /\ resp'.ok /\ resp'.sid = sid)
              \/ \A a \in AchIds :
                     /\ achievements_data[sid][a].unlocked =>
                            /\ sid \in DOMAIN achievements_data'
                            /\ achievements_data'[sid][a] =
                                   achievements_data[sid][a]
                     /\ (/\ ~achievements_data[sid][a].unlocked
                         /\ sid \in DOMAIN achievements_data'
                         /\ achievements_data'[sid][a].unlocked)
                        => /\ Satisfied(game_sessions'[sid], a)
                           /\ resp'.sid = sid]_vars

\* a Sync that unlocks one achievement and keeps an older one
C26_Witness ==
    /\ resp.op = "sync"
    /\ resp.ok
    /\ prior.achievements # <<>>
    /\ resp.sid \in DOMAIN achievements_data
    /\ \E a, b \in AchIds :
           /\ ~prior.achievements[a].unlocked
           /\ achievements_data[resp.sid][a].unlocked
           /\ achievements_data[resp.sid][a].unlockedAt = now
           /\ prior.achievements[b].unlocked
           /\ prior.achievements[b].unlockedAt < now
           /\ achievements_data[resp.sid][b] = prior.achievements[b]


\* C27: the banana DNA of a session is never negative; it rises only in a
\* successful Prestige of that session; it falls only in a Reset of that
\* session, to 0, or in a successful Purchase of a prestige upgrade by that
\* session, by the upgrade's flat cost; every other request and every
\* failed request leaves it as it was.
C27_DnaFrame ==
    [][app = "enhanced" =>
          \A sid \in DOMAIN game_sessions \cap DOMAIN game_sessions' :
              LET old == game_sessions[sid].bananaDNA
                  new == game_sessions'[sid].bananaDNA
                  mine == steps' = steps + 1 /\ resp'.ok /\ resp'.sid = sid
              IN  /\ new >= 0
                  /\ new > old => mine /\ resp'.op = "prestige"
                  /\ new < old =>
                         /\ mine
                         /\ \/ resp'.op = "reset" /\ new = 0
                            \/ /\ resp'.op = "upgrade"
                               /\ resp'.upgradeId \in UpgradeIds
                               /\ DEFAULT_UPGRADES[resp'.upgradeId].type
                                      = "prestige"
                               /\ old - new =
                                      DEFAULT_UPGRADES[resp'.upgradeId]
                                          .baseCost]_vars

\* requests that leave a positive banana DNA alone: a Sync, a skin purchase
\* or the attempt to buy a prestige upgrade
C27_Witness ==
    /\ resp.op \in {"sync", "skin", "upgrade"}
    /\ resp.sid \in DOMAIN game_sessions
    /\ prior.gameState # NoState
    /\ prior.gameState.bananaDNA > 0
    /\ game_sessions[resp.sid].bananaDNA = prior.gameState.bananaDNA


\* C28: after every completed init, Sync, Purchase, Prestige or Reset of a
\* session, the cached bananasPerClick and bananasPerSecond of its stored
\* state are the values recomputed from its stored upgrades, achievements,
\* banana DNA and boosts.
C28_YieldsRecomputed ==
    (/\ resp.ok
     /\ resp.op \in {"init", "sync", "upgrade", "prestige", "reset"}
     /\ resp.sid \in DOMAIN game_sessions)
    => LET gs == game_sessions[resp.sid]
           ups == upgrades_data[resp.sid]
       IN  IF app = "main"
           THEN /\ gs.bananasPerClick = main_calculate_bananas_per_click(ups)
                /\ gs.bananasPerSecond = main_calculate_bananas_per_second(ups)
           ELSE resp.sid \in DOMAIN achievements_data =>
                LET achs == achievements_data[resp.sid]
                IN  /\ gs.bananasPerClick =
                           calculate_bananas_per_click(ups, gs, achs)
                    /\ gs.bananasPerSecond =
                           calculate_bananas_per_second(ups, gs, achs)


(***************************************************************************)
(* get_global_multiplier as a function of its arguments: the arguments are *)
(* drawn from bounded sets and one call records the result, in hundredths. *)
(***************************************************************************)
MaxBlessings == 2

DnaChoices == {0, 10, 50}

UnlockChoices == SUBSET {"ach_clicks_1", "ach_bananas_3", "ach_prestige_1"}

BoostChoices ==
    {<<>>,
     <<[active |-> TRUE, multiplier |-> 2]>>,
     <<[active |-> FALSE, multiplier |-> 2], [active |-> TRUE, multiplier |-> 3]>>}

MultiplierInit ==
    /\ app = "enhanced"
    /\ now = START_TIME
    /\ ticks = 0
    /\ waited = FALSE
    /\ steps = 0
    /\ disk = NoFile
    /\ \E dna \in DnaChoices, boosts \in BoostChoices :
          game_sessions =
              (VeteranId :> [create_initial_state(VeteranId, 0) EXCEPT
                                !.bananaDNA = dna, !.activeBoosts = boosts])
    /\ \E owned \in 0..MaxBlessings :
          upgrades_data =
              (VeteranId :> [create_default_upgrades EXCEPT
                                !["prestige_1"] = owned])
    /\ \E won \in UnlockChoices :
          achievements_data =
              (VeteranId :> [a \in AchIds |->
                                IF a \in won
                                THEN [unlocked |-> TRUE, unlockedAt |-> 0]
                                ELSE Locked])
    /\ leaderboard_data = <<>>
    /\ clients = {VeteranId}
    /\ active_events = <<>>
    /\ resp = BaseResp
    /\ prior = NoPrior

MultiplierCall(sid) ==
    /\ steps = 0
    /\ steps' = 1
    /\ resp' = [BaseResp EXCEPT
                   !.op = "multiplier", !.sid = sid, !.ok = TRUE,
                   !.multiplier =
                       get_global_multiplier(game_sessions[sid],
                                             upgrades_data[sid],
                                             achievements_data[sid])]
    /\ UNCHANGED <<app, now, ticks, waited, clients, game_sessions,
                   upgrades_data, achievements_data, leaderboard_data,
                   active_events, disk, prior>>

MultiplierNext == \E sid \in clients : MultiplierCall(sid)

MultiplierSpec == MultiplierInit /\ [][MultiplierNext]_vars

\* the multiplier with every additive term summed before any product
AdditiveFirst(gs, ups, achs) ==
    LET sum == 100 + gs.bananaDNA
               + SumFn([a \in AchIds |-> IF achs[a].unlocked
                                          THEN DEFAULT_ACHIEVEMENTS[a].reward
                                          ELSE 0], AchOrder)
    IN  BoostProduct(sum * Pow(DEFAULT_UPGRADES["prestige_1"].multiplier,
                               ups["prestige_1"]),
                     gs.activeBoosts)

\* C29: get_global_multiplier returns (1 + 0.01 * banana DNA + the rewards of
\* the unlocked achievements) * multiplier of prestige_1 ^ owned * the active
\* boost multipliers, for every banana DNA, owned count and set of unlocked
\* achievements.
C29_AdditiveFirst ==
    resp.op = "multiplier" =>
        resp.multiplier = AdditiveFirst(game_sessions[resp.sid],
                                        upgrades_data[resp.sid],
                                        achievements_data[resp.sid])


\* C30: a ClickEvent of a known session on a golden event of the registry
\* credits max(floor(bananas * 0.01), 100) to the session's bananas and
\* lifetime bananas and removes the event, so the same event id is unknown
\* afterwards; on an event id that is not in the registry it fails with
\* UnknownEvent and credits nothing; on a rain or festival event it fails
\* with NotClickable, credits nothing and keeps the event.
C30_ClickEvent ==
    [][(/\ steps' = steps + 1
        /\ resp'.op = "click"
        /\ resp'.sid \in DOMAIN game_sessions)
       => LET sid == resp'.sid
              eid == resp'.eventId
              gs == game_sessions[sid]
              reward == IF FxTrunc(gs.bananas) \div 100 > 100
                        THEN FxTrunc(gs.bananas) \div 100 ELSE 100
          IN  IF eid \notin DOMAIN active_events
              THEN /\ ~resp'.ok
                   /\ resp'.err = "UnknownEvent"
                   /\ game_sessions' = game_sessions
                   /\ disk' = disk
                   /\ active_events' = active_events
              ELSE IF active_events[eid].type = "golden"
              THEN /\ resp'.ok
                   /\ resp'.reward = reward
                   /\ game_sessions'[sid] =
                          [gs EXCEPT
                             !.bananas = FxAdd(@, FxInt(reward)),
                             !.totalBananasEarned = FxAdd(@, FxInt(reward))]
                   /\ eid \notin DOMAIN active_events'
                   /\ \A e \in DOMAIN active_events \ {eid} :
                          /\ e \in DOMAIN active_events'
                          /\ active_events'[e] = active_events[e]
              ELSE /\ ~resp'.ok
                   /\ resp'.err = "NotClickable"
                   /\ game_sessions' = game_sessions
                   /\ disk' = disk
                   /\ active_events' = active_events]_vars

\* a golden event was clicked and paid more than the minimum reward
C30_Witness ==
    /\ resp.op = "click"
    /\ resp.ok
    /\ resp.reward > GOLDEN_MIN_REWARD
    /\ resp.eventId \notin DOMAIN active_events


(***************************************************************************)
(* The event registry.  It lives in memory only; the runs below start      *)
(* with two saved sessions right after Syncs that may have spawned an      *)
(* event for each of them, and serve init, Sync and ClickEvent requests.   *)
(***************************************************************************)
EventDeltas == {1000, 15000, 90000}

EventClicks == {0, 5}

HostState(gs) ==
    [gs EXCEPT !.lastSyncTime = START_TIME, !.lastEventCheck = START_TIME]

EventFile ==
    save_data([game_sessions |-> (VeteranId :> HostState(VeteranState))
                                 @@ (CenturionId :> HostState(CenturionState)),
               upgrades_data |-> (VeteranId :> VeteranUpgrades)
                                 @@ (CenturionId :> CenturionUpgrades),
               leaderboard_data |-> <<>>,
               achievements_data |->
                   (VeteranId :> VeteranAchievements)
                   @@ (CenturionId :> CenturionAchievements)])

Spawned(events, sid, kind) ==
    IF kind = "none" THEN events
    ELSE spawn_random_event(events, sid, kind, START_TIME)

EventInit ==
    /\ app = "enhanced"
    /\ now = START_TIME
    /\ ticks = 0
    /\ waited = FALSE
    /\ steps = 0
    /\ disk = EventFile
    /\ game_sessions = load_data(EmptyMem, disk).game_sessions
    /\ upgrades_data = load_data(EmptyMem, disk).upgrades_data
    /\ leaderboard_data = load_data(EmptyMem, disk).leaderboard_data
    /\ achievements_data = load_data(EmptyMem, disk).achievements_data
    /\ clients = {VeteranId, CenturionId}
    /\ \E k1 \in SpawnChoices, k2 \in SpawnChoices :
          active_events = Spawned(Spawned(<<>>, VeteranId, k1), CenturionId, k2)
    /\ resp = BaseResp
    /\ prior = NoPrior

EventNext ==
    \/ \E d \in EventDeltas : Tick(d)
    \/ \E s \in Requesters, tok \in Tokens : Served(s) /\ init_game(s, tok)
    \/ \E s \in Callers, k \in EventClicks, e \in SpawnChoices :
           Served(s) /\ sync_game(s, k, e)
    \/ \E s \in Callers, e \in EventIds : Served(s) /\ click_event(s, e)

EventSpec == EventInit /\ [][EventNext]_vars

Expired(ev, t) == t - ev.startTime >= ev.duration * 1000

\* C31: when init or Sync reads a session's active events, every event
\* returned is an unexpired event of that session, every expired event of
\* the session is deleted from the registry, and the events of the other
\* sessions are neither returned nor deleted.
C31_ActiveEvents ==
    [][(/\ steps' = steps + 1
        /\ resp'.op \in {"init", "sync"}
        /\ resp'.ok)
       => LET sid == resp'.sid
          IN  /\ \A e \in resp'.activeEvents :
                     /\ e.sid = sid
                     /\ e \in DOMAIN active_events'
                     /\ ~Expired(active_events'[e], now)
              /\ \A e \in DOMAIN active_events :
                     IF e.sid = sid
                     THEN Expired(active_events[e], now)
                              => e \notin DOMAIN active_events'
                     ELSE /\ e \in DOMAIN active_events'
                          /\ active_events'[e] = active_events[e]
                          /\ e \notin resp'.activeEvents]_vars

\* a read returned an event of the session while an expired event of
\* another session stayed in the registry
C31_Witness ==
    /\ resp.op \in {"init", "sync"}
    /\ resp.ok
    /\ resp.activeEvents # {}
    /\ \E e \in DOMAIN active_events :
           e.sid # resp.sid /\ Expired(active_events[e], now)


\* C32: for every pendingClicks a client can send, zero and negative values
\* included, and every elapsed time, a Sync leaves totalClicks, bananas and
\* lifetime bananas at least as large as they were before the Sync.
C32_SyncNeverLowers ==
    (/\ resp.op = "sync"
     /\ resp.ok
     /\ prior.gameState # NoState)
    => /\ resp.gameState.totalClicks >= prior.gameState.totalClicks
       /\ FxLeq(prior.gameState.bananas, resp.gameState.bananas)
       /\ app = "enhanced" =>
              FxLeq(prior.gameState.totalBananasEarned,
                    resp.gameState.totalBananasEarned)


\* the last request served, if any, was legitimate play: an init, a Sync
\* whose clicks were within the rate bound, or a successful Purchase
LegitimateSoFar ==
    \/ resp.op \in {"start", "init"}
    \/ /\ resp.op = "sync"
       /\ resp.ok
       /\ resp.pendingClicks >= 0
       /\ resp.actualClicks = resp.pendingClicks
    \/ resp.op = "upgrade" /\ resp.ok

\* C33: a session of main.py reached by legitimate play only (init, Syncs
\* within the click-rate bound, successful Purchases) is never capped or
\* flagged: SubmitScore places floor(bananas) on the leaderboard, and
\* validate_session reports no impossible banana count for the saved session.
C33_LegitimateNeverCapped ==
    [][(/\ app = "main"
        /\ steps' = steps + 1
        /\ LegitimateSoFar
        /\ resp'.ok)
       => /\ resp'.op = "submit" =>
                 resp'.cost = FxTrunc(resp'.gameState.bananas)
          /\ (LegitimateSoFar' /\ resp'.sid \in DOMAIN disk'.mem.game_sessions)
                 => ~validate_session(disk'.mem, resp'.sid, now).impossible]_vars


\* C34: a ClickEvent from a session naming an event that was spawned for
\* another session never changes the caller's bananas and never removes the
\* other session's event.
C34_OwnerOnly ==
    [][(/\ steps' = steps + 1
        /\ resp'.op = "click"
        /\ resp'.sid \in DOMAIN game_sessions
        /\ resp'.eventId \in DOMAIN active_events
        /\ resp'.eventId.sid # resp'.sid)
       => /\ game_sessions'[resp'.sid].bananas
                 = game_sessions[resp'.sid].bananas
          /\ resp'.eventId \in DOMAIN active_events']_vars

\* C35: a ClickEvent that arrives when now - startTime >= duration of the
\* golden event credits no reward, whether the event is still in the
\* registry or was purged by a read of the active events.
C35_UnexpiredOnly ==
    [][(/\ steps' = steps + 1
        /\ resp'.op = "click"
        /\ resp'.sid \in DOMAIN game_sessions
        /\ resp'.eventId \in DOMAIN active_events
           => Expired(active_events[resp'.eventId], now))
       => /\ ~resp'.ok
          /\ game_sessions' = game_sessions]_vars


\* C36: the time-based earnings credited by a Sync never exceed the
\* per-second yield that was in effect over the elapsed time: when a Purchase
\* was served at the time of the Sync, the interval since the previous Sync
\* earns at the yield the session had before that Purchase.
C36_YieldInEffect ==
    [][(/\ steps' = steps + 1
        /\ ~waited
        /\ resp.op = "upgrade"
        /\ resp.ok
        /\ prior.gameState # NoState
        /\ resp'.op = "sync"
        /\ resp'.ok
        /\ resp'.sid = resp.sid)
       => FxLeq(resp'.timeEarnings,
                FxRate(prior.gameState.bananasPerSecond, resp'.elapsed))]_vars


\* C37: in main.py, calculate_total_spent_on_upgrades of the owned counts
\* equals the bananas debited by the Purchases: it is 0 for a new or reset
\* session, and every Purchase request raises it by exactly the amount by
\* which the session's bananas fall.
C37_SpentMatchesDebits ==
    (/\ app = "main"
     /\ resp.sid \in DOMAIN game_sessions
     /\ resp.sid \in DOMAIN upgrades_data)
    => LET spent == main_calculate_total_spent_on_upgrades(
                        upgrades_data[resp.sid])
       IN  /\ (resp.op = "upgrade" /\ prior.gameState # NoState)
                  => FxInt(spent - main_calculate_total_spent_on_upgrades(
                                       prior.upgrades))
                         = FxSub(prior.gameState.bananas,
                                 game_sessions[resp.sid].bananas)
           /\ (resp.ok /\ resp.op = "reset") => spent = 0
           /\ (resp.ok /\ resp.op = "init" /\ prior.gameState = NoState)
                  => spent = 0

\* a Purchase of main.py was paid from the session's bananas
C37_Witness ==
    /\ app = "main"
    /\ resp.op = "upgrade"
    /\ resp.ok
    /\ resp.sid \in DOMAIN game_sessions
    /\ prior.gameState # NoState
    /\ FxLess(game_sessions[resp.sid].bananas, prior.gameState.bananas)
    /\ upgrades_data[resp.sid][resp.upgradeId]
           = prior.upgrades[resp.upgradeId] + 1


\* C38: every name stored on the leaderboard is at most 20 characters long.
C38_NameLength ==
    \A i \in 1..Len(leaderboard_data) :
        Len(leaderboard_data[i].name) <= NAME_LIMIT


====
